---- MODULE Spec2Model ----
(***************************************************************************)
(* Ingestion pipeline (modulos/ingesta.py), Record model                   *)
(* (modulos/modelos.py), analysis (modulos/analisis.py) and the upload and *)
(* analysis handlers of the Flask application (app.py) of the Survey123    *)
(* reporting system.                                                       *)
(*                                                                         *)
(* A DataFrame is a record [hay, columnas, filas]: hay = FALSE is Python's *)
(* None, columnas the set of column names, filas the sequence of rows.  A  *)
(* row maps every column that carries cells in this model to a cell; the   *)
(* cells of a column the table does not have are NaN and are never read.   *)
(* A cell is [k, v]: k = "num" a number v, "nan" a missing value, "txt" a  *)
(* text that is no number, "numtxt" a text that reads as the number v.     *)
(* The cell of a text column is missing or [k = "str", s]: the string s, a *)
(* sequence of characters.                                                 *)
(* Coordinates are in hundredths of a degree (-75.58 is -7558).            *)
(***************************************************************************)
EXTENDS Integers, Sequences, FiniteSets, TLC

VARIABLES
    df_original,         \* ProcesadorSurvey123.df_original
    df_procesado,        \* ProcesadorSurvey123.df_procesado
    errores_validacion,  \* ProcesadorSurvey123.errores_validacion
    datos_cargados,      \* app.datos_cargados
    intervenciones,      \* app.repositorio.intervenciones
    sol,                 \* per request: position in the handler and its locals
    visto                \* what the last read request saw of the application

vars == <<df_original, df_procesado, errores_validacion, datos_cargados,
          intervenciones, sol, visto>>

(***************************************************************************)
(* Bounds of the model.                                                    *)
(***************************************************************************)
MaxFilas == 2        \* rows of a generated input table
MaxFaltantes == 2    \* required columns a generated input table may lack
MaxErrores == 2      \* uploads are accepted while errores_validacion is shorter

Solicitudes == {1, 2}

(***************************************************************************)
(* Cells.                                                                  *)
(***************************************************************************)
Num(n) == [k |-> "num", v |-> n]
NaN == [k |-> "nan", v |-> 0]
Texto == [k |-> "txt", v |-> 0]
NumTexto(n) == [k |-> "numtxt", v |-> n]
Str(s) == [k |-> "str", v |-> 0, s |-> s]

RECURSIVE SumaSec(_)
SumaSec(s) == IF s = <<>> THEN 0 ELSE Head(s) + SumaSec(Tail(s))

Rango(s) == {s[i] : i \in 1..Len(s)}

Abs(n) == IF n < 0 THEN -n ELSE n

(***************************************************************************)
(* Columns.                                                                *)
(***************************************************************************)
REQUIRED_COLUMNS ==
    <<"Shape", "X", "Y", "start", "id_punto", "estado_obr",
      "fecha_dilig", "nombre_int", "num_cuadri", "trabajador">>

columnas_numericas ==
    <<"num_cuadri", "trabajador", "cant_ayuda", "cant_ofici",
      "cant_opera", "cant_auxil", "cant_otros", "num_total_",
      "total_hora", "horas_retr", "horas_mini", "horas_volq",
      "horas_comp", "horas_otra">>

columnas_trabajadores ==
    <<"cant_ayuda", "cant_ofici", "cant_opera", "cant_auxil", "cant_otros">>

columnas_horas_maq ==
    <<"horas_retr", "horas_mini", "horas_volq", "horas_comp", "horas_otra">>

columnas_texto == <<"id_punto", "nombre_int", "maquinaria">>

ColumnasCelda ==
    {"X", "Y", "localizaci", "estado_obr", "total_calculado_trabajadores",
     "total_horas_maquinaria"}
        \cup Rango(columnas_numericas) \cup Rango(columnas_texto)

\* defecto marks a table on which pandas raises inside limpiar_datos
\* ("limpieza") or calcular_totales ("totales"): the except branches of the two.
Ninguno == [hay |-> FALSE, columnas |-> {}, filas |-> <<>>, defecto |-> "ninguno"]

DataFrame(cols, fs) ==
    [hay |-> TRUE, columnas |-> cols, filas |-> fs, defecto |-> "ninguno"]

\* The numeric value pandas' sum sees in a cell (NaN is skipped).
Valor(c) == IF c.k = "num" THEN c.v ELSE 0

SumaFila(fila, cols) == SumaSec([i \in 1..Len(cols) |-> Valor(fila[cols[i]])])

SumaColumna(df, col) ==
    SumaSec([i \in 1..Len(df.filas) |-> Valor(df.filas[i][col])])

(***************************************************************************)
(* ProcesadorSurvey123: the stages of the pipeline as functions of the     *)
(* processor's fields.                                                     *)
(***************************************************************************)
Error(tipo, cols) == [tipo |-> tipo, columnas |-> cols]

\* Bounding box of _validar_coordenadas, in hundredths of a degree.
x_min == -7570
x_max == -7540
y_min == 610
y_max == 640

\* pd.api.types.is_numeric_dtype of a column read from a spreadsheet: every
\* cell is a number or missing.
is_numeric_dtype(df, col) ==
    \A i \in 1..Len(df.filas) : df.filas[i][col].k \in {"num", "nan"}

\* Series.between(lo, hi), inclusive; a missing value is not between.
between(c, lo, hi) == c.k = "num" /\ lo <= c.v /\ c.v <= hi

\* Coordinates out of the box rejected instead of logged.
validar_coordenadas_estricta(df, errores) ==
    IF \/ ~is_numeric_dtype(df, "X")
       \/ \E i \in 1..Len(df.filas) : ~between(df.filas[i]["X"], x_min, x_max)
    THEN [ok |-> FALSE,
          errores |-> Append(errores, Error("Columna X no es numerica", <<>>)),
          avisos |-> <<>>]
    ELSE IF \/ ~is_numeric_dtype(df, "Y")
            \/ \E i \in 1..Len(df.filas) : ~between(df.filas[i]["Y"], y_min, y_max)
    THEN [ok |-> FALSE,
          errores |-> Append(errores, Error("Columna Y no es numerica", <<>>)),
          avisos |-> <<>>]
    ELSE [ok |-> TRUE, errores |-> errores, avisos |-> <<>>]

\* A text that reads as a number counted as a number (the column coerced).
es_coercible(df, col) ==
    \A i \in 1..Len(df.filas) : df.filas[i][col].k \in {"num", "nan", "numtxt"}

validar_coordenadas_con_coercion(df, errores) ==
    IF ~es_coercible(df, "X")
    THEN [ok |-> FALSE,
          errores |-> Append(errores, Error("Columna X no es numerica", <<>>)),
          avisos |-> <<>>]
    ELSE IF ~es_coercible(df, "Y")
    THEN [ok |-> FALSE,
          errores |-> Append(errores, Error("Columna Y no es numerica", <<>>)),
          avisos |-> <<>>]
    ELSE [ok |-> TRUE, errores |-> errores, avisos |-> <<>>]

\* Result of a validation: the verdict, the error list after the call and the
\* warnings logged by the call.
validar_coordenadas(df, errores) ==
    IF ~is_numeric_dtype(df, "X")
    THEN [ok |-> FALSE,
          errores |-> Append(errores, Error("Columna X no es numerica", <<>>)),
          avisos |-> <<>>]
    ELSE IF ~is_numeric_dtype(df, "Y")
    THEN [ok |-> FALSE,
          errores |-> Append(errores, Error("Columna Y no es numerica", <<>>)),
          avisos |-> <<>>]
    ELSE LET x_validas == \A i \in 1..Len(df.filas) :
                              between(df.filas[i]["X"], x_min, x_max)
             y_validas == \A i \in 1..Len(df.filas) :
                              between(df.filas[i]["Y"], y_min, y_max)
         IN  [ok |-> TRUE,
              errores |-> errores,
              avisos |-> IF ~x_validas \/ ~y_validas
                         THEN <<[msg |-> "coordenadas fuera del rango"]>>
                         ELSE <<>>]

\* The loop over the required columns stopping at the first one it misses.
columnas_faltantes_primera(df) ==
    LET todas == SelectSeq(REQUIRED_COLUMNS, LAMBDA col : col \notin df.columnas)
    IN  IF todas = <<>> THEN <<>> ELSE <<Head(todas)>>

columnas_faltantes(df) ==
    SelectSeq(REQUIRED_COLUMNS, LAMBDA col : col \notin df.columnas)

\* The check for an empty table left out.
validar_estructura_sin_vacio(df, errores) ==
    IF ~df.hay
    THEN [ok |-> FALSE,
          errores |-> Append(errores, Error("No hay archivo cargado", <<>>)),
          avisos |-> <<>>]
    ELSE IF columnas_faltantes(df) # <<>>
    THEN [ok |-> FALSE,
          errores |-> Append(errores,
                             Error("Columnas faltantes", columnas_faltantes(df))),
          avisos |-> <<>>]
    ELSE validar_coordenadas(df, errores)

validar_estructura(df, errores) ==
    IF ~df.hay
    THEN [ok |-> FALSE,
          errores |-> Append(errores, Error("No hay archivo cargado", <<>>)),
          avisos |-> <<>>]
    ELSE IF columnas_faltantes(df) # <<>>
    THEN [ok |-> FALSE,
          errores |-> Append(errores,
                             Error("Columnas faltantes", columnas_faltantes(df))),
          avisos |-> <<>>]
    ELSE IF df.filas = <<>>
    THEN [ok |-> FALSE,
          errores |-> Append(errores, Error("El archivo esta vacio", <<>>)),
          avisos |-> <<>>]
    ELSE validar_coordenadas(df, errores)

\* The coercion without fillna(0): what does not parse stays missing.
to_numeric_sin_fillna(c) ==
    IF c.k \in {"num", "numtxt"} THEN Num(c.v) ELSE NaN

\* pd.to_numeric(errors='coerce').fillna(0) on one cell.
to_numeric_fillna(c) ==
    IF c.k \in {"num", "numtxt"} THEN Num(c.v) ELSE Num(0)

\* str.strip() on a string: the whitespace at either end removed.
RECURSIVE lstrip(_)
lstrip(s) == IF s # <<>> /\ Head(s) = " " THEN lstrip(Tail(s)) ELSE s

RECURSIVE rstrip(_)
rstrip(s) ==
    IF s # <<>> /\ s[Len(s)] = " " THEN rstrip(SubSeq(s, 1, Len(s) - 1)) ELSE s

\* One whitespace character removed at either end instead of all of them.
strip_una_vez(s) ==
    LET izq == IF s # <<>> /\ Head(s) = " " THEN Tail(s) ELSE s
    IN  IF izq # <<>> /\ izq[Len(izq)] = " "
        THEN SubSeq(izq, 1, Len(izq) - 1) ELSE izq

strip(s) == rstrip(lstrip(s))

\* Series.astype(str) on one cell of a text column: a string stays, a missing
\* value becomes the string "nan".
astype_str(c) == IF c.k = "nan" THEN Str(<<"n", "a", "n">>) ELSE c

\* astype(str).str.strip() on one cell.
limpiar_texto(c) ==
    LET t == astype_str(c)
    IN  IF t.k = "str" THEN Str(strip(t.s)) ELSE t

\* limpiar_datos: the copy of df_original with its numeric and text columns
\* converted.  Date columns carry no cells here.
limpiar_datos(df) ==
    [df EXCEPT !.filas =
        [i \in 1..Len(df.filas) |->
            [c \in ColumnasCelda |->
                IF c \in Rango(columnas_numericas) /\ c \in df.columnas
                THEN to_numeric_fillna(df.filas[i][c])
                ELSE IF c \in Rango(columnas_texto) /\ c \in df.columnas
                THEN limpiar_texto(df.filas[i][c])
                ELSE df.filas[i][c]]]]

columnas_existentes(df, cols) == SelectSeq(cols, LAMBDA col : col \in df.columnas)

\* df[nombre] = df[cols].sum(axis=1) when cols is not empty.
con_total(df, nombre, cols) ==
    IF cols = <<>> THEN df
    ELSE [df EXCEPT !.columnas = df.columnas \cup {nombre},
                    !.filas = [i \in 1..Len(df.filas) |->
                        [df.filas[i] EXCEPT
                            ![nombre] = Num(SumaFila(df.filas[i], cols))]]]

\* Differences counted only above 1.
registros_con_diferencias_mayores(df) ==
    IF "num_total_" \in df.columnas /\ "total_calculado_trabajadores" \in df.columnas
    THEN Cardinality({i \in 1..Len(df.filas) :
             Abs(Valor(df.filas[i]["num_total_"])
                 - Valor(df.filas[i]["total_calculado_trabajadores"])) > 1})
    ELSE -1

\* _validar_consistencia: the number of rows whose reported and computed
\* totals differ, or -1 when one of the two columns is absent (no check).
registros_con_diferencias(df) ==
    IF "num_total_" \in df.columnas /\ "total_calculado_trabajadores" \in df.columnas
    THEN Cardinality({i \in 1..Len(df.filas) :
             Abs(Valor(df.filas[i]["num_total_"])
                 - Valor(df.filas[i]["total_calculado_trabajadores"])) > 0})
    ELSE -1

\* The warning logged whenever the check is made, also for no difference.
validar_consistencia_siempre(df) ==
    IF registros_con_diferencias(df) >= 0
    THEN <<[msg |-> "diferencias en total de trabajadores",
            n |-> registros_con_diferencias(df)]>>
    ELSE <<>>

validar_consistencia(df) ==
    IF registros_con_diferencias(df) > 0
    THEN <<[msg |-> "diferencias en total de trabajadores",
            n |-> registros_con_diferencias(df)]>>
    ELSE <<>>

\* calcular_totales: the table with the computed columns, and the warnings.
calcular_totales(df) ==
    LET con_trab == con_total(df, "total_calculado_trabajadores",
                              columnas_existentes(df, columnas_trabajadores))
        con_maq == con_total(con_trab, "total_horas_maquinaria",
                             columnas_existentes(con_trab, columnas_horas_maq))
    IN  [df |-> con_maq, avisos |-> validar_consistencia(con_maq)]

\* obtener_resumen (estados_obra, a frequency table of a text column, is not
\* part of this model).
obtener_resumen(df_o, df_p, errores) ==
    IF ~df_p.hay THEN [error |-> "No hay datos procesados"]
    ELSE [archivo_original |->
              [filas |-> IF df_o.hay THEN Len(df_o.filas) ELSE 0,
               columnas |-> IF df_o.hay THEN Cardinality(df_o.columnas) ELSE 0],
          archivo_procesado |->
              [filas |-> Len(df_p.filas),
               columnas |-> Cardinality(df_p.columnas)],
          validacion |->
              [errores |-> errores, es_valido |-> Len(errores) = 0],
          estadisticas |->
              [total_intervenciones |-> Len(df_p.filas),
               total_trabajadores |->
                   IF "num_total_" \in df_p.columnas
                   THEN SumaColumna(df_p, "num_total_") ELSE 0,
               total_horas |->
                   IF "total_hora" \in df_p.columnas
                   THEN SumaColumna(df_p, "total_hora") ELSE 0]]

(***************************************************************************)
(* modelos.py: the Record (Intervencion) built from one row, and the       *)
(* repository's collection.                                                *)
(***************************************************************************)
\* fila.get(col, 0): the row's cell, or 0 when the table has no such column.
get(fila, cols, col) == IF col \in cols THEN fila[col] ELSE Num(0)

\* float(c) raises on a text that is no number; int(c) also on a missing value.
float_falla(c) == c.k = "txt"
int_falla(c) == c.k \in {"txt", "nan"}

\* float(c) and int(c) where they do not raise: NaN stays NaN.
float(c) == IF c.k = "nan" THEN NaN ELSE Num(c.v)

columnas_int ==
    <<"num_cuadri", "trabajador", "cant_ayuda", "cant_ofici", "cant_opera",
      "cant_auxil", "cant_otros", "num_total_">>

columnas_float ==
    <<"X", "Y", "total_hora", "horas_retr", "horas_mini", "horas_volq",
      "horas_comp", "horas_otra", "localizaci">>

\* None, the cell of a value that is not there at all.
None == [k |-> "none", v |-> 0]

\* str(c): a string is itself; nan, None and a number are written out.  Texto
\* stands for a text that reads as no number and names no status.
str(c) ==
    CASE c.k = "str" -> c
      [] c.k = "nan" -> Str(<<"n", "a", "n">>)
      [] c.k = "none" -> Str(<<"None">>)
      [] c.k \in {"num", "numtxt"} -> Str(<<ToString(c.v)>>)
      [] OTHER -> Str(<<"texto">>)

\* str.lower(): a string is a sequence of pieces, blanks and words, and
\* lower-casing works piece by piece.
minusculas ==
    [p \in {"Sin", "SIN", "Iniciar", "INICIAR", "En", "EN", "Ejecución",
            "EJECUCIÓN", "Ejecucion", "EJECUCION", "Finalizada", "FINALIZADA",
            "Finalizado", "FINALIZADO", "Suspendida", "SUSPENDIDA"} |->
        CASE p \in {"Sin", "SIN"} -> "sin"
          [] p \in {"Iniciar", "INICIAR"} -> "iniciar"
          [] p \in {"En", "EN"} -> "en"
          [] p \in {"Ejecución", "EJECUCIÓN"} -> "ejecución"
          [] p \in {"Ejecucion", "EJECUCION"} -> "ejecucion"
          [] p \in {"Finalizada", "FINALIZADA"} -> "finalizada"
          [] p \in {"Finalizado", "FINALIZADO"} -> "finalizado"
          [] OTHER -> "suspendida"]

lower_pieza(p) == IF p \in DOMAIN minusculas THEN minusculas[p] ELSE p

RECURSIVE lower(_)
lower(s) == IF s = <<>> THEN <<>> ELSE <<lower_pieza(Head(s))>> \o lower(Tail(s))

\* EstadoObra: the members of the enumeration and their values.
EstadoObra == <<"SIN_INICIAR", "EN_EJECUCION", "EN_EJECUCION_ALT", "FINALIZADA">>

value(estado) ==
    CASE estado = "SIN_INICIAR" -> <<"Sin", " ", "iniciar">>
      [] estado = "EN_EJECUCION" -> <<"En", " ", "ejecución">>
      [] estado = "EN_EJECUCION_ALT" -> <<"En", " ", "ejecucion">>
      [] estado = "FINALIZADA" -> <<"Finalizada">>

\* mapeo of from_string, and mapeo.get(texto, SIN_INICIAR).
mapeo ==
    [texto \in {<<"sin", " ", "iniciar">>, <<"en", " ", "ejecución">>,
                <<"en", " ", "ejecucion">>, <<"finalizada">>, <<"finalizado">>} |->
        CASE texto = <<"sin", " ", "iniciar">> -> "SIN_INICIAR"
          [] texto \in {<<"en", " ", "ejecución">>, <<"en", " ", "ejecucion">>}
                -> "EN_EJECUCION"
          [] OTHER -> "FINALIZADA"]

mapeo_get(texto) == IF texto \in DOMAIN mapeo THEN mapeo[texto] ELSE "SIN_INICIAR"

\* The mapping looked up with the text as it is written.
from_string_sin_normalizar(valor) ==
    IF valor.k \in {"none", "nan"} THEN "SIN_INICIAR"
    ELSE mapeo_get(str(valor).s)

\* EstadoObra.from_string
from_string(valor) ==
    IF valor.k \in {"none", "nan"} THEN "SIN_INICIAR"
    ELSE mapeo_get(lower(strip(str(valor).s)))

\* RecursosHumanos.__post_init__: a reported total of 0 is replaced by the sum.
RecursosHumanos(cant, total) ==
    [cant |-> cant,
     total_trabajadores |-> IF total = 0 THEN SumaSec(cant) ELSE total]

\* RecursosHumanos.validar_consistencia
rh_validar_consistencia(rh) == rh.total_trabajadores = SumaSec(rh.cant)

\* Intervencion.validar_datos: the list of errors found (dates are not part of
\* this model).
validar_datos(reg) ==
    LET x == reg.coordenada_x
        y == reg.coordenada_y
    IN  (IF ~(x.k = "num" /\ -7600 <= x.v /\ x.v <= -7500)
         THEN <<"Coordenada X fuera del rango de Medellin">> ELSE <<>>)
        \o (IF ~(y.k = "num" /\ 600 <= y.v /\ y.v <= 700)
            THEN <<"Coordenada Y fuera del rango de Medellin">> ELSE <<>>)
        \o (IF ~rh_validar_consistencia(reg.recursos_humanos)
            THEN <<"Inconsistencia en total de trabajadores">> ELSE <<>>)

\* __post_init__ raising when validar_datos finds an error.
post_init_estricto(reg) == Len(validar_datos(reg)) = 0

\* Intervencion.__post_init__ calls validar_datos and drops its result: TRUE
\* when the construction goes through.
post_init(reg) == Len(validar_datos(reg)) >= 0

\* Intervencion.desde_dataframe_fila: [ok, reg]; ok = FALSE when it raises.
desde_dataframe_fila(fila, cols) ==
    LET reg == [datos_originales |-> fila,
                estado_obra |->
                    from_string(str(IF "estado_obr" \in cols THEN fila["estado_obr"]
                                    ELSE Str(<<"Sin", " ", "iniciar">>))),
                total_horas_trabajadas |-> float(get(fila, cols, "total_hora")),
                horas |-> [i \in 1..Len(columnas_horas_maq) |->
                              float(get(fila, cols, columnas_horas_maq[i]))],
                coordenada_x |-> float(get(fila, cols, "X")),
                coordenada_y |-> float(get(fila, cols, "Y")),
                localizacion_replanteo |-> float(get(fila, cols, "localizaci")),
                recursos_humanos |->
                    RecursosHumanos(
                        [i \in 1..Len(columnas_trabajadores) |->
                            get(fila, cols, columnas_trabajadores[i]).v],
                        get(fila, cols, "num_total_").v)]
        convierte ==
            /\ \A i \in 1..Len(columnas_int) :
                   ~int_falla(get(fila, cols, columnas_int[i]))
            /\ \A i \in 1..Len(columnas_float) :
                   ~float_falla(get(fila, cols, columnas_float[i]))
    IN  IF convierte /\ post_init(reg)
        THEN [ok |-> TRUE, reg |-> reg]
        ELSE [ok |-> FALSE, reg |-> reg]

\* RepositorioIntervenciones.desde_dataframe run to its end on df: the Records
\* of the rows that do not raise, in row order.
RECURSIVE registros_de(_, _)
registros_de(filas, cols) ==
    IF filas = <<>> THEN <<>>
    ELSE LET r == desde_dataframe_fila(Head(filas), cols)
         IN  (IF r.ok THEN <<r.reg>> ELSE <<>>) \o registros_de(Tail(filas), cols)

(***************************************************************************)
(* The uploads the model draws from.                                       *)
(***************************************************************************)
FilaBase == [c \in ColumnasCelda |-> NaN]

Fila(x, y, ayuda, ofici, otros, total, loc) ==
    [FilaBase EXCEPT !["X"] = x, !["Y"] = y,
                     !["num_cuadri"] = Num(1), !["trabajador"] = Num(5),
                     !["cant_ayuda"] = ayuda, !["cant_ofici"] = ofici,
                     !["cant_opera"] = Num(0), !["cant_auxil"] = Num(0),
                     !["cant_otros"] = otros, !["num_total_"] = total,
                     !["total_hora"] = Num(8), !["horas_retr"] = Num(4),
                     !["localizaci"] = loc]

\* A row of a table that lacks the columns in sin: their cells are NaN.
Sin(fila, sin) == [c \in ColumnasCelda |-> IF c \in sin THEN NaN ELSE fila[c]]

ColumnasCompletas ==
    Rango(REQUIRED_COLUMNS) \cup Rango(columnas_trabajadores)
        \cup {"num_total_", "total_hora", "horas_retr", "localizaci"}

\* An upload: what the request carries, whether pd.read_excel reads it, and
\* the table it reads.
Archivo(tabla) == [tipo |-> "xlsx", legible |-> TRUE, tabla |-> tabla]
Ilegible == [tipo |-> "xlsx", legible |-> FALSE, tabla |-> Ninguno]
SinArchivo == [tipo |-> "sin_archivo", legible |-> FALSE, tabla |-> Ninguno]
NombreVacio == [tipo |-> "nombre_vacio", legible |-> FALSE, tabla |-> Ninguno]
NoPermitido == [tipo |-> "no_permitido", legible |-> FALSE, tabla |-> Ninguno]

FilaSana == Fila(Num(-7558), Num(624), Num(2), Num(3), Num(0), Num(5), Num(10))
FilaTotalErrado == Fila(Num(-7558), Num(624), Num(2), Num(3), Num(0), Num(6), NaN)
FilaFueraDeRango == Fila(Num(0), Num(0), Num(1), Num(0), Num(1), Texto, Num(3))
FilaNoConvertible == Fila(Num(-7550), Num(630), Num(0), Num(0), Num(0), Num(0), Texto)

TablaSana == DataFrame(ColumnasCompletas, <<FilaSana, FilaSana>>)
TablaAnomala == DataFrame(ColumnasCompletas, <<FilaTotalErrado, FilaFueraDeRango>>)
TablaConFilaMala ==
    DataFrame(ColumnasCompletas, <<FilaNoConvertible, FilaTotalErrado>>)
TablaSinColumnas ==
    DataFrame(ColumnasCompletas \ {"Shape", "trabajador"},
              <<Sin(FilaSana, {"trabajador"})>>)
TablaVacia == DataFrame(ColumnasCompletas, <<>>)
HojaEnBlanco == DataFrame({}, <<>>)
TablaXTexto ==
    DataFrame(ColumnasCompletas, <<[FilaSana EXCEPT !["X"] = Texto]>>)
TablaDefectoLimpieza == [TablaSana EXCEPT !.defecto = "limpieza"]
TablaDefectoTotales == [TablaAnomala EXCEPT !.defecto = "totales"]

\* The uploads of the application's specifications.
Archivos ==
    {Archivo(TablaSana), Archivo(TablaAnomala), Archivo(TablaConFilaMala),
     Archivo(TablaSinColumnas), Archivo(TablaVacia), Archivo(HojaEnBlanco),
     Archivo(TablaXTexto),
     Archivo(TablaDefectoLimpieza), Archivo(TablaDefectoTotales),
     Ilegible, SinArchivo, NombreVacio, NoPermitido}

(***************************************************************************)
(* The upload handler procesar_archivo, one request r at a time through    *)
(* these positions:                                                        *)
(*   libre -> cargar -> validar -> limpiar -> calcular -> resumir ->       *)
(*   manejar -> repositorio -> filas -> respondido -> libre                *)
(* cargar to resumir are the stages of procesar_archivo_completo on the    *)
(* application's one processor.  etapas lists the stages the call has run, *)
(* previo is the application's dataset and collection when the request     *)
(* arrived, avisos the warnings the request has logged.                    *)
(***************************************************************************)
Libre ==
    [pc |-> "libre", archivo |-> SinArchivo, exito |-> FALSE,
     resumen |-> [error |-> ""], codigo |-> 0, df |-> Ninguno, i |-> 0,
     avisos |-> <<>>, etapas |-> <<>>,
     previo |-> [datos |-> Ninguno, repo |-> <<>>]]

Etapa(nombre, ok) == [etapa |-> nombre, ok |-> ok]

\* procesar_archivo_completo returns (False, error) from stage `nombre`.
Fracasa(r, nombre, error) ==
    [sol EXCEPT ![r].pc = "manejar", ![r].exito = FALSE, ![r].resumen = error,
                ![r].etapas = Append(@, Etapa(nombre, FALSE))]

Init ==
    /\ df_original = Ninguno
    /\ df_procesado = Ninguno
    /\ errores_validacion = <<>>
    /\ datos_cargados = Ninguno
    /\ intervenciones = <<>>
    /\ sol = [r \in Solicitudes |-> Libre]
    /\ visto = [datos |-> Ninguno, repo |-> <<>>]

\* A request arrives: the checks of the request itself, then the file is saved.
Recibir(r, archivos) ==
    /\ sol[r].pc = "libre"
    /\ Len(errores_validacion) < MaxErrores
    /\ \E a \in archivos :
         sol' = [sol EXCEPT ![r] =
                   [Libre EXCEPT
                      !.archivo = a,
                      !.previo = [datos |-> datos_cargados, repo |-> intervenciones],
                      !.pc = IF a.tipo = "xlsx" THEN "cargar" ELSE "respondido",
                      !.codigo = IF a.tipo = "xlsx" THEN 0 ELSE 400]]
    /\ UNCHANGED <<df_original, df_procesado, errores_validacion,
                   datos_cargados, intervenciones, visto>>

\* cargar_archivo
Cargar(r) ==
    /\ sol[r].pc = "cargar"
    /\ IF sol[r].archivo.legible
       THEN /\ df_original' = sol[r].archivo.tabla
            /\ sol' = [sol EXCEPT ![r].pc = "validar",
                                  ![r].etapas = Append(@, Etapa("cargar", TRUE))]
       ELSE /\ sol' = Fracasa(r, "cargar", [error |-> "No se pudo cargar el archivo"])
            /\ UNCHANGED df_original
    /\ UNCHANGED <<df_procesado, errores_validacion, datos_cargados,
                   intervenciones, visto>>

\* The result of validar_estructura ignored: the call goes on to clean.
ValidarSinParar(r) ==
    /\ sol[r].pc = "validar"
    /\ LET v == validar_estructura(df_original, errores_validacion)
       IN  /\ errores_validacion' = v.errores
           /\ sol' = [sol EXCEPT ![r].pc = "limpiar",
                                 ![r].avisos = @ \o v.avisos,
                                 ![r].etapas = Append(@, Etapa("validar", v.ok))]
    /\ UNCHANGED <<df_original, df_procesado, datos_cargados, intervenciones, visto>>

\* validar_estructura
Validar(r) ==
    /\ sol[r].pc = "validar"
    /\ LET v == validar_estructura(df_original, errores_validacion)
       IN  /\ errores_validacion' = v.errores
           /\ IF v.ok
              THEN sol' = [sol EXCEPT ![r].pc = "limpiar",
                                      ![r].avisos = @ \o v.avisos,
                                      ![r].etapas = Append(@, Etapa("validar", TRUE))]
              ELSE sol' = Fracasa(r, "validar",
                                  [error |-> "Estructura de archivo invalida",
                                   errores |-> v.errores])
    /\ UNCHANGED <<df_original, df_procesado, datos_cargados, intervenciones, visto>>

\* limpiar_datos: the copy is made before anything can raise.
Limpiar(r) ==
    /\ sol[r].pc = "limpiar"
    /\ IF df_original.defecto = "limpieza"
       THEN /\ df_procesado' = df_original
            /\ sol' = Fracasa(r, "limpiar", [error |-> "Error limpiando datos"])
       ELSE /\ df_procesado' = limpiar_datos(df_original)
            /\ sol' = [sol EXCEPT ![r].pc = "calcular",
                                  ![r].etapas = Append(@, Etapa("limpiar", TRUE))]
    /\ UNCHANGED <<df_original, errores_validacion, datos_cargados,
                   intervenciones, visto>>

\* calcular_totales
Calcular(r) ==
    /\ sol[r].pc = "calcular"
    /\ IF df_procesado.defecto = "totales"
       THEN /\ sol' = Fracasa(r, "calcular", [error |-> "Error calculando totales"])
            /\ UNCHANGED df_procesado
       ELSE /\ df_procesado' = calcular_totales(df_procesado).df
            /\ sol' = [sol EXCEPT ![r].pc = "resumir",
                                  ![r].avisos = @ \o calcular_totales(df_procesado).avisos,
                                  ![r].etapas = Append(@, Etapa("calcular", TRUE))]
    /\ UNCHANGED <<df_original, errores_validacion, datos_cargados,
                   intervenciones, visto>>

\* obtener_resumen and the return of procesar_archivo_completo
Resumir(r) ==
    /\ sol[r].pc = "resumir"
    /\ sol' = [sol EXCEPT ![r].pc = "manejar", ![r].exito = TRUE,
                          ![r].resumen = obtener_resumen(df_original, df_procesado,
                                                         errores_validacion),
                          ![r].etapas = Append(@, Etapa("resumir", TRUE))]
    /\ UNCHANGED <<df_original, df_procesado, errores_validacion,
                   datos_cargados, intervenciones, visto>>

\* The handler's else branch: 400 with the error.
Rechazar(r) ==
    /\ sol[r].pc = "manejar"
    /\ ~sol[r].exito
    /\ sol' = [sol EXCEPT ![r].pc = "respondido", ![r].codigo = 400]
    /\ UNCHANGED <<df_original, df_procesado, errores_validacion,
                   datos_cargados, intervenciones, visto>>

\* The dataset installed without looking at the result of the call.
InstalarSinMirar(r) ==
    /\ sol[r].pc = "manejar"
    /\ datos_cargados' = df_procesado
    /\ sol' = [sol EXCEPT ![r].pc = "repositorio"]
    /\ UNCHANGED <<df_original, df_procesado, errores_validacion,
                   intervenciones, visto>>

\* app.datos_cargados = app.procesador.obtener_datos_procesados()
Instalar(r) ==
    /\ sol[r].pc = "manejar"
    /\ sol[r].exito
    /\ datos_cargados' = df_procesado
    /\ sol' = [sol EXCEPT ![r].pc = "repositorio"]
    /\ UNCHANGED <<df_original, df_procesado, errores_validacion,
                   intervenciones, visto>>

\* desde_dataframe appending to the collection it has.
VaciarSinVaciar(r) ==
    /\ sol[r].pc = "repositorio"
    /\ sol' = [sol EXCEPT ![r].pc = "filas", ![r].df = datos_cargados, ![r].i = 1]
    /\ UNCHANGED <<df_original, df_procesado, errores_validacion,
                   datos_cargados, intervenciones, visto>>

\* desde_dataframe(app.datos_cargados): the collection is emptied.
Vaciar(r) ==
    /\ sol[r].pc = "repositorio"
    /\ intervenciones' = <<>>
    /\ sol' = [sol EXCEPT ![r].pc = "filas", ![r].df = datos_cargados, ![r].i = 1]
    /\ UNCHANGED <<df_original, df_procesado, errores_validacion,
                   datos_cargados, visto>>

\* The loop left at the first row whose construction raises.
AgregarFilaAborta(r) ==
    /\ sol[r].pc = "filas"
    /\ sol[r].i <= Len(sol[r].df.filas)
    /\ LET c == desde_dataframe_fila(sol[r].df.filas[sol[r].i], sol[r].df.columnas)
       IN  /\ intervenciones' = IF c.ok THEN Append(intervenciones, c.reg)
                                 ELSE intervenciones
           /\ sol' = [sol EXCEPT ![r].i = IF c.ok THEN @ + 1
                                          ELSE Len(sol[r].df.filas) + 1]
    /\ UNCHANGED <<df_original, df_procesado, errores_validacion,
                   datos_cargados, visto>>

\* One turn of desde_dataframe's loop: the row's Record is appended, or the
\* row is skipped when its construction raises.
AgregarFila(r) ==
    /\ sol[r].pc = "filas"
    /\ sol[r].i <= Len(sol[r].df.filas)
    /\ LET c == desde_dataframe_fila(sol[r].df.filas[sol[r].i], sol[r].df.columnas)
       IN  intervenciones' = IF c.ok THEN Append(intervenciones, c.reg)
                             ELSE intervenciones
    /\ sol' = [sol EXCEPT ![r].i = @ + 1]
    /\ UNCHANGED <<df_original, df_procesado, errores_validacion,
                   datos_cargados, visto>>

\* to_excel writes the processed file and the handler answers; to_excel
\* raising is answered with 500.
Guardar(r) ==
    /\ sol[r].pc = "filas"
    /\ sol[r].i > Len(sol[r].df.filas)
    /\ \E escrito \in BOOLEAN :
         sol' = [sol EXCEPT ![r].pc = "respondido",
                            ![r].codigo = IF escrito THEN 200 ELSE 500]
    /\ UNCHANGED <<df_original, df_procesado, errores_validacion,
                   datos_cargados, intervenciones, visto>>

\* The response has been sent.
Terminar(r) ==
    /\ sol[r].pc = "respondido"
    /\ sol' = [sol EXCEPT ![r] = Libre]
    /\ UNCHANGED <<df_original, df_procesado, errores_validacion,
                   datos_cargados, intervenciones, visto>>

\* A request that reads the application's state.
Consultar ==
    /\ visto' = [datos |-> datos_cargados, repo |-> intervenciones]
    /\ UNCHANGED <<df_original, df_procesado, errores_validacion,
                   datos_cargados, intervenciones, sol>>

\* Requests served one after the other, each by the first free thread.
RecibirEnSerie(r) ==
    /\ \A q \in Solicitudes : sol[q].pc = "libre" /\ r <= q
    /\ Recibir(r, Archivos)

ConsultarEnSerie ==
    /\ \A q \in Solicitudes : sol[q].pc = "libre"
    /\ Consultar

\* procesar_archivo_completo
Etapas(r) ==
    Cargar(r) \/ Validar(r) \/ Limpiar(r) \/ Calcular(r) \/ Resumir(r)

\* What procesar_archivo does with its result.
Manejo(r) ==
    Rechazar(r) \/ Instalar(r) \/ Vaciar(r) \/ AgregarFila(r) \/ Guardar(r)

Next ==
    \/ \E r \in Solicitudes :
         RecibirEnSerie(r) \/ Etapas(r) \/ Manejo(r) \/ Terminar(r)
    \/ ConsultarEnSerie

Spec == Init /\ [][Next]_vars

\* Requests served by concurrent threads (Flask's app.run is threaded), one
\* upload in each thread.
ArchivosEnHilos ==
    {Archivo(TablaSana), Archivo(TablaAnomala), Archivo(TablaSinColumnas)}

RecibirEnHilo(r) == Recibir(r, ArchivosEnHilos)

NextHilos ==
    \/ \E r \in Solicitudes : RecibirEnHilo(r) \/ Etapas(r) \/ Manejo(r)
    \/ Consultar

SpecHilos == Init /\ [][NextHilos]_vars

(***************************************************************************)
(* The pipeline alone, on one processor and one generated table: one call  *)
(* of procesar_archivo_completo, by a processor that is new or that has    *)
(* already rejected an upload.                                             *)
(***************************************************************************)
FilasHasta(filas) == UNION {[1..n -> filas] : n \in 0..MaxFilas}

\* Tables that lack up to MaxFaltantes required columns, with coordinates in
\* the box, out of it, texts that read as numbers, or texts that do not.
Coordenadas ==
    {<<Num(-7558), Num(624)>>, <<Num(0), Num(624)>>, <<Texto, Num(624)>>,
     <<Num(-7558), Texto>>, <<NumTexto(-7558), Num(624)>>}

FilasEstructura(sin) ==
    {Sin([FilaSana EXCEPT !["X"] = xy[1], !["Y"] = xy[2]], sin) :
        xy \in Coordenadas}

TablasEstructura ==
    UNION {{DataFrame(ColumnasCompletas \ sin, fs) :
               fs \in FilasHasta(FilasEstructura(sin))} :
           sin \in {f \in SUBSET Rango(REQUIRED_COLUMNS) :
                       Cardinality(f) <= MaxFaltantes}}

\* Tables with every required column and worker counts and reported totals
\* that agree or not, with or without the optional columns.
FilasRRHH ==
    {Fila(x, Num(624), Num(2), Num(3), Num(otros), total, NaN) :
        x \in {Num(-7558), Num(0)}, otros \in {0, 1},
        total \in {Num(5), Num(6), Texto}}

TablasRRHH ==
    UNION {{DataFrame(ColumnasCompletas \ sin, [i \in 1..Len(fs) |-> Sin(fs[i], sin)]) :
               fs \in FilasHasta(FilasRRHH)} :
           sin \in {{}, {"num_total_"}, {"cant_otros"}}}

ArchivosIngesta == {Archivo(t) : t \in TablasEstructura \cup TablasRRHH}

InitIngesta ==
    /\ \/ /\ df_original = Ninguno
          /\ errores_validacion = <<>>
       \/ /\ df_original = TablaVacia
          /\ errores_validacion = <<Error("El archivo esta vacio", <<>>)>>
    /\ df_procesado = Ninguno
    /\ datos_cargados = Ninguno
    /\ intervenciones = <<>>
    /\ \E a \in ArchivosIngesta :
         sol = [r \in Solicitudes |->
                   IF r = 1 THEN [Libre EXCEPT !.pc = "cargar", !.archivo = a]
                   ELSE Libre]
    /\ visto = [datos |-> Ninguno, repo |-> <<>>]

NextIngesta == \E r \in Solicitudes : Etapas(r)

SpecIngesta == InitIngesta /\ [][NextIngesta]_vars

(***************************************************************************)
(* limpiar_datos alone: a processor that holds a generated table cleans    *)
(* it, and then cleans its own output.                                     *)
(***************************************************************************)
CeldasNumericas == {Num(5), NaN, Texto, NumTexto(7)}

CeldasTexto ==
    {NaN, Str(<<"a">>), Str(<<" ", "a", " ", "b", " ", " ">>), Str(<<" ">>)}

FilasLimpieza ==
    {[FilaSana EXCEPT !["cant_ayuda"] = n, !["id_punto"] = t, !["maquinaria"] = t] :
        n \in CeldasNumericas, t \in CeldasTexto}

\* The table of the rows fs without the columns sin.
TablaLimpieza(fs, sin) ==
    DataFrame((ColumnasCompletas \cup {"maquinaria"}) \ sin,
              [i \in 1..Len(fs) |-> Sin(fs[i], sin)])

InitLimpieza ==
    /\ \E sin \in {{}, {"maquinaria"}, {"cant_ayuda"}} :
         \E fs \in FilasHasta(FilasLimpieza) :
            /\ df_original = TablaLimpieza(fs, sin)
            /\ sol = [r \in Solicitudes |->
                         IF r = 1
                         THEN [Libre EXCEPT !.pc = "limpiar",
                                            !.archivo = Archivo(TablaLimpieza(fs, sin))]
                         ELSE Libre]
    /\ df_procesado = Ninguno
    /\ errores_validacion = <<>>
    /\ datos_cargados = Ninguno
    /\ intervenciones = <<>>
    /\ visto = [datos |-> Ninguno, repo |-> <<>>]

\* limpiar_datos on a processor whose table is the output of limpiar_datos.
LimpiarDeNuevo(r) ==
    /\ sol[r].pc = "calcular"
    /\ df_original' = df_procesado
    /\ df_procesado' = limpiar_datos(df_procesado)
    /\ sol' = [sol EXCEPT ![r].pc = "relimpiado"]
    /\ UNCHANGED <<errores_validacion, datos_cargados, intervenciones, visto>>

NextLimpieza == \E r \in Solicitudes : Limpiar(r) \/ LimpiarDeNuevo(r)

SpecLimpieza == InitLimpieza /\ [][NextLimpieza]_vars

(***************************************************************************)
(* RepositorioIntervenciones.desde_dataframe alone, on a generated table   *)
(* that no cleaning has touched, by a repository that is empty or holds    *)
(* the Records of an earlier load.                                         *)
(***************************************************************************)
FilasRegistro ==
    {[FilaSana EXCEPT !["cant_ayuda"] = a, !["localizaci"] = l] :
        a \in {Num(2), NaN}, l \in {Num(10), NaN, Texto}}
        \cup {[FilaSana EXCEPT !["num_total_"] = Num(t)] : t \in {0, 6}}

\* The table of the rows fs without the columns sin.
TablaRegistro(fs, sin) ==
    DataFrame(ColumnasCompletas \ sin, [i \in 1..Len(fs) |-> Sin(fs[i], sin)])

InitRepositorio ==
    /\ df_original = Ninguno
    /\ df_procesado = Ninguno
    /\ errores_validacion = <<>>
    /\ \E sin \in {{}, {"cant_ayuda"}, {"localizaci"}} :
         \E fs \in FilasHasta(FilasRegistro) :
            datos_cargados = TablaRegistro(fs, sin)
    /\ intervenciones \in {<<>>, registros_de(TablaSana.filas, TablaSana.columnas)}
    /\ sol = [r \in Solicitudes |->
                 IF r = 1 THEN [Libre EXCEPT !.pc = "repositorio"] ELSE Libre]
    /\ visto = [datos |-> Ninguno, repo |-> <<>>]

NextRepositorio == \E r \in Solicitudes : Vaciar(r) \/ AgregarFila(r)

SpecRepositorio == InitRepositorio /\ [][NextRepositorio]_vars

(***************************************************************************)
(* AnalisisSurvey123 (modulos/analisis.py).  The rows of an analysed table *)
(* map the columns the analysis reads (ColumnasAnalisis) to cells.         *)
(*                                                                         *)
(* pandas adds the cells of a column in float64, from the first row to the *)
(* last, rounding every partial sum to the nearest number of 53            *)
(* significant bits (ties to even).  The model keeps the rounding and      *)
(* shortens the significand to Mantisa bits: a number is an integer, exact *)
(* while it fits Mantisa bits, and a sum is exact while every partial sum  *)
(* fits, as every sum of integer counts does in float64.                   *)
(***************************************************************************)
Mantisa == 6         \* significant bits of a floating-point number
MaxObras == 3        \* rows of an analysed table

\* The gap between neighbouring floating-point numbers around n >= 0.
RECURSIVE ulp(_)
ulp(n) == IF n < 2^Mantisa THEN 1 ELSE 2 * ulp(n \div 2)

\* Round to nearest, ties to even.
redondear(n) ==
    LET a == Abs(n)
        q == ulp(a)
        abajo == (a \div q) * q
        resto == a - abajo
        r == IF 2 * resto < q THEN abajo
             ELSE IF 2 * resto > q THEN abajo + q
             ELSE IF (abajo \div q) % 2 = 0 THEN abajo ELSE abajo + q
    IN  IF n < 0 THEN -r ELSE r

\* float64 addition.
sumar(a, b) == redondear(a + b)

RECURSIVE acumular(_, _)
acumular(acc, s) ==
    IF s = <<>> THEN acc ELSE acumular(sumar(acc, Head(s)), Tail(s))

\* self.datos[col], and the column without its missing cells.
Serie(df, col) == [i \in 1..Len(df.filas) |-> df.filas[i][col]]

dropna(s) == SelectSeq(s, LAMBDA c : c.k # "nan")

Valores(s) == LET t == dropna(s) IN [i \in 1..Len(t) |-> t[i].v]

\* Series.sum(), Series.mean(), Series.max(), Series.min(): missing cells
\* are skipped; the mean and the extremes of no cell at all are NaN.  A
\* quotient is kept as the pair of its operands.
Cociente(a, b) == [entre |-> a, n |-> b]

sum(s) == acumular(0, Valores(s))

mean(s) ==
    IF dropna(s) = <<>> THEN NaN ELSE Cociente(sum(s), Len(dropna(s)))

\* The first number of the column taken for its maximum.
max_primera(s) == IF dropna(s) = <<>> THEN NaN ELSE Num(Valores(s)[1])

max(s) ==
    IF dropna(s) = <<>> THEN NaN
    ELSE Num(CHOOSE m \in Rango(Valores(s)) : \A v \in Rango(Valores(s)) : v <= m)

min(s) ==
    IF dropna(s) = <<>> THEN NaN
    ELSE Num(CHOOSE m \in Rango(Valores(s)) : \A v \in Rango(Valores(s)) : m <= v)

\* (self.datos[col] > 0).sum()
obras_con(s) == Cardinality({i \in 1..Len(s) : s[i].k = "num" /\ s[i].v > 0})

\* Series.value_counts(): the rows of every value that is not missing.
cuenta(s, c) == Cardinality({i \in 1..Len(s) : s[i] = c})

\* The rollup in the order the values are first seen, not sorted.
value_counts_sin_ordenar(s) ==
    LET vistos == Rango(dropna(s))
        primera(c) == CHOOSE i \in 1..Len(s) : s[i] = c /\ \A j \in 1..(i - 1) : s[j] # c
    IN  {t \in [1..Cardinality(vistos) -> {[valor |-> c, n |-> cuenta(s, c)] : c \in vistos}] :
            \A i, j \in 1..Cardinality(vistos) :
                i < j => primera(t[i].valor) < primera(t[j].valor)}

\* Series.value_counts().to_dict(): the values by descending count.  The
\* sort is pandas' default (quicksort), which is not stable: values of equal
\* count come in an order the build of numpy decides, so the rollup is one
\* of the listings below.
value_counts(s) ==
    LET vistos == Rango(dropna(s))
    IN  {t \in [1..Cardinality(vistos) -> {[valor |-> c, n |-> cuenta(s, c)] : c \in vistos}] :
            /\ \A i, j \in 1..Cardinality(vistos) : i # j => t[i].valor # t[j].valor
            /\ \A i, j \in 1..Cardinality(vistos) : i < j => t[i].n >= t[j].n}

\* grupos_actividades of analizar_actividades_construccion, in its order.
Grupo(nombre, cols) == [grupo |-> nombre, columnas |-> cols]

grupos_actividades ==
    <<Grupo("preparacion_terreno",
            <<"descapote", "a_mano", "a_maquina", "Tala_poda", "roceria_li">>),
      Grupo("cerramientos_proteccion",
            <<"cerramient", "tela_verde", "malla_nara", "teja_ondul",
              "cubierta_p", "pasarela_p", "proteccion", "protecci_vehicular">>),
      Grupo("limpieza_mantenimiento", <<"limpieza_e", "limpieza_s">>),
      Grupo("infraestructura_hidrica",
            <<"malla_esla", "canoas_rua", "bajantes", "tuberia_en">>),
      Grupo("estructuras_seguridad",
            <<"cerco_made", "pintura_ba", "pasamanos_", "barrera_me", "pintura_pa">>),
      Grupo("elementos_servicio",
            <<"aparatos_s", "puertas", "senal_vert", "reparacion", "ventanas",
              "teja_barro">>),
      Grupo("pavimentacion", <<"piso_adoqu", "piso_ado_1", "cordones_c">>),
      Grupo("drenajes", <<"carcamos_c", "Cunetas_co", "drenaje_pe">>),
      Grupo("excavaciones",
            <<"excav_manu", "excav_ma_1", "excav_meca", "excav_me_1",
              "excav_me_2", "excav_me_3", "explanacio", "explanac_1",
              "excav_terrazas">>),
      Grupo("trabajos_roca",
            <<"roca_cielo_cuña", "roca_cielo_martillo", "roca_pila_">>),
      Grupo("concreto", <<"e_concreto">>),
      Grupo("cortes_taludes", <<"corte_talu", "corte_ta_1", "corte_ta_2">>),
      Grupo("transporte", <<"transpor_1">>)>>

RECURSIVE Aplanar(_)
Aplanar(gs) == IF gs = <<>> THEN <<>> ELSE Head(gs).columnas \o Aplanar(Tail(gs))

\* Every field of the taxonomy, group after group.
actividades == Aplanar(grupos_actividades)

columnas_rrhh ==
    <<"cant_ayuda", "cant_ofici", "cant_opera", "cant_auxil", "cant_otros",
      "num_total_", "total_hora">>

ColumnasAnalisis ==
    {"estado_obr", "maquinaria", "X", "Y", "num_total_", "total_hora", "horas_retr"}
        \cup Rango(actividades)

\* A column's sum, or 0 when the table has no such column.
total_de(df, col) == IF col \in df.columnas THEN sum(Serie(df, col)) ELSE 0

\* calcular_metricas_generales.
calcular_metricas_generales(df, estados) ==
    LET extremo(f(_), col) == IF col \in df.columnas THEN f(Serie(df, col)) ELSE Num(0)
    IN  [total_registros |-> Len(df.filas),
         estados_obra |-> estados,
         cobertura_geografica |->
             [lat_min |-> extremo(min, "Y"), lat_max |-> extremo(max, "Y"),
              lon_min |-> extremo(min, "X"), lon_max |-> extremo(max, "X")]]

\* analizar_recursos_humanos: the totals and the means of the workers and of
\* the hours worked.
analizar_recursos_humanos(df) ==
    IF columnas_existentes(df, columnas_rrhh) = <<>> THEN [error |-> TRUE]
    ELSE [error |-> FALSE,
          total_trabajadores |-> total_de(df, "num_total_"),
          total_horas_trabajadas |-> total_de(df, "total_hora"),
          promedio_trabajadores_por_obra |->
              IF "num_total_" \in df.columnas
              THEN mean(Serie(df, "num_total_")) ELSE Num(0),
          promedio_horas_por_obra |->
              IF "total_hora" \in df.columnas
              THEN mean(Serie(df, "total_hora")) ELSE Num(0)]

\* analizar_maquinaria: the hours of the five machines, their total, the hours
\* per row and the rollup of the machinery types.
analizar_maquinaria(df, tipos) ==
    LET horas == [i \in 1..Len(columnas_horas_maq) |-> total_de(df, columnas_horas_maq[i])]
        total_horas_maquinaria == acumular(0, horas)
    IN  [distribucion_horas_maquinaria |-> horas,
         tipos_maquinaria_usada |-> tipos,
         total_horas_maquinaria |-> total_horas_maquinaria,
         promedio_horas_por_obra |->
             IF Len(df.filas) > 0
             THEN Cociente(total_horas_maquinaria, Len(df.filas)) ELSE Num(0)]

\* The statistics of one field of the taxonomy.
totales_por_actividad(df, col) ==
    [total |-> sum(Serie(df, col)),
     obras_con_actividad |-> obras_con(Serie(df, col)),
     promedio |-> mean(Serie(df, col)),
     maximo |-> max(Serie(df, col))]

\* The group's count as the loop keeps it: one more for every column of the
\* group that has a positive cell.
obras_con_actividad(df, existentes) ==
    Cardinality({col \in Rango(existentes) : obras_con(Serie(df, col)) > 0})

\* total_grupo: the totals of the group's columns added one after the other.
total_grupo(df, existentes) ==
    acumular(0, [i \in 1..Len(existentes) |-> sum(Serie(df, existentes[i]))])

\* grupo_stats of one group that has columns in the table.
grupo_stats(df, columnas) ==
    LET existentes == columnas_existentes(df, columnas)
    IN  [columnas_analizadas |-> existentes,
         totales_por_actividad |->
             [col \in Rango(existentes) |-> totales_por_actividad(df, col)],
         total_grupo |-> total_grupo(df, existentes),
         obras_con_actividad |-> obras_con_actividad(df, existentes),
         promedio_por_obra |->
             IF Len(df.filas) > 0
             THEN Cociente(total_grupo(df, existentes), Len(df.filas))
             ELSE Num(0)]

\* Every group of the taxonomy, with or without columns in the table.
grupos_todos(df) == grupos_actividades

\* The groups that have a column in the table, in the taxonomy's order.
grupos_existentes(df) ==
    SelectSeq(grupos_actividades,
              LAMBDA g : columnas_existentes(df, g.columnas) # <<>>)

resumen_por_grupo(df) ==
    [g \in {grupos_existentes(df)[i].grupo : i \in 1..Len(grupos_existentes(df))} |->
        grupo_stats(df, (CHOOSE h \in Rango(grupos_actividades) : h.grupo = g).columnas)]

\* Cells counted where columns are: every positive cell of the taxonomy.
columnas_con_datos_por_celda(df) ==
    SumaSec([i \in 1..Len(columnas_existentes(df, actividades)) |->
                obras_con(Serie(df, columnas_existentes(df, actividades)[i]))])

\* Columns of the taxonomy whose total is positive.
columnas_con_datos(df) ==
    Cardinality({col \in Rango(columnas_existentes(df, actividades)) :
        sum(Serie(df, col)) > 0})

cobertura_actividades(df) ==
    LET con_datos == columnas_con_datos(df)
    IN  [columnas_totales |-> Len(actividades),
         columnas_con_datos |-> con_datos,
         porcentaje_cobertura |->
             IF Len(actividades) > 0
             THEN Cociente(con_datos * 100, Len(actividades)) ELSE Num(0)]

\* actividades_con_mayor_volumen: the total of every analysed field, in the
\* order the groups list them.
RECURSIVE actividades_con_mayor_volumen(_, _)
actividades_con_mayor_volumen(df, cols) ==
    IF cols = <<>> THEN <<>>
    ELSE <<[actividad |-> Head(cols), total |-> sum(Serie(df, Head(cols)))]>>
             \o actividades_con_mayor_volumen(df, Tail(cols))

\* The first n of sorted(items, key = total, reverse = True): Python's sort is
\* stable, items of equal total keep their order.
RECURSIVE ordenadas(_, _)
ordenadas(items, n) ==
    IF items = <<>> \/ n = 0 THEN <<>>
    ELSE LET i == CHOOSE i \in 1..Len(items) :
                      /\ \A j \in 1..Len(items) : items[j].total <= items[i].total
                      /\ \A j \in 1..(i - 1) : items[j].total < items[i].total
         IN  <<items[i]>>
                 \o ordenadas(SubSeq(items, 1, i - 1)
                                 \o SubSeq(items, i + 1, Len(items)), n - 1)

actividades_mas_comunes(df) ==
    ordenadas(actividades_con_mayor_volumen(df, columnas_existentes(df, actividades)), 10)

analizar_actividades_construccion(df) ==
    LET gs == grupos_existentes(df)
        total_todas_actividades ==
            acumular(0, [i \in 1..Len(gs) |->
                            total_grupo(df, columnas_existentes(df, gs[i].columnas))])
    IN  [resumen_por_grupo |-> resumen_por_grupo(df),
         totales_generales |->
             [total_todas_actividades |-> total_todas_actividades,
              promedio_actividades_por_obra |->
                  IF Len(df.filas) > 0
                  THEN Cociente(total_todas_actividades, Len(df.filas))
                  ELSE Num(0)],
         actividades_mas_comunes |-> actividades_mas_comunes(df),
         cobertura_actividades |-> cobertura_actividades(df)]

\* The columns the analysis adds, compares with 0 or averages: pandas raises
\* TypeError on a cell of text, and generar_analisis_completo with it.
columnas_sumadas(df) ==
    columnas_existentes(df, columnas_rrhh \o columnas_horas_maq \o actividades)

Falla == [ok |-> FALSE]

\* generar_analisis_completo: the analyses the call can return, one for each
\* order value_counts can give to values of equal count.
generar_analisis_completo(df) ==
    IF \E col \in Rango(columnas_sumadas(df)) : ~is_numeric_dtype(df, col)
    THEN {Falla}
    ELSE {[ok |-> TRUE,
           metadata |-> [total_registros |-> Len(df.filas),
                         columnas_analizadas |-> df.columnas],
           metricas_generales |-> calcular_metricas_generales(df, estados),
           recursos_humanos |-> analizar_recursos_humanos(df),
           maquinaria |-> analizar_maquinaria(df, tipos),
           actividades_construccion |-> analizar_actividades_construccion(df)] :
             estados \in (IF "estado_obr" \in df.columnas
                          THEN value_counts(Serie(df, "estado_obr")) ELSE {<<>>}),
             tipos \in (IF "maquinaria" \in df.columnas
                        THEN value_counts(Serie(df, "maquinaria")) ELSE {<<>>})}

(***************************************************************************)
(* The analysis page alone (ver_analisis of app.py) on a generated table:  *)
(* the table is analysed, loaded again with its rows in another order, and *)
(* analysed again.                                                         *)
(***************************************************************************)
\* A text without blanks around it, written as one piece.
Cadena(t) == Str(<<t>>)

\* Quantities of a row: n in every field of the taxonomy; c in the fields
\* cols and none in the others.
Todas(n) == [c \in Rango(actividades) |-> Num(n)]

Solo(cols, c) == [a \in Rango(actividades) |-> IF a \in cols THEN c ELSE Num(0)]

FilaAnalisis(estado, maquinaria, trabajadores, horas, cantidades) ==
    [c \in ColumnasAnalisis |->
        CASE c = "estado_obr" -> estado
          [] c = "maquinaria" -> maquinaria
          [] c = "X" -> Num(x_min + trabajadores)
          [] c = "Y" -> Num(y_max - trabajadores)
          [] c = "num_total_" -> Num(trabajadores)
          [] c \in {"total_hora", "horas_retr"} -> horas
          [] OTHER -> cantidades[c]]

FilasAnalisis ==
    {FilaAnalisis(Cadena("Finalizada"), Cadena("Retroexcavadora"), 5, Num(64),
                  Todas(1)),
     FilaAnalisis(Cadena("En ejecucion"), NaN, 2, Num(1),
                  Solo({"descapote", "a_mano"}, Num(2))),
     FilaAnalisis(Cadena("Finalizada"), Cadena("Volqueta"), 3, Num(1),
                  Todas(-1))}

\* A row with a text where a quantity is expected.
FilaConTexto ==
    FilaAnalisis(Cadena("En ejecucion"), Cadena("Volqueta"), 1, NaN,
                 Solo({"e_concreto"}, Texto))

SinColumnas(fila, sin) ==
    [c \in ColumnasAnalisis |-> IF c \in sin THEN NaN ELSE fila[c]]

\* The table of the rows fs without the columns sin.
TablaAnalisis(fs, sin) ==
    DataFrame(ColumnasAnalisis \ sin,
              [i \in 1..Len(fs) |-> SinColumnas(fs[i], sin)])

ColumnasQuitadas ==
    {{}, {"e_concreto", "estado_obr", "descapote", "maquinaria", "num_total_",
          "total_hora"}}

InitAnalisis ==
    /\ df_original = Ninguno
    /\ df_procesado = Ninguno
    /\ errores_validacion = <<>>
    /\ \/ \E sin \in ColumnasQuitadas, n \in 0..MaxObras :
            \E fs \in [1..n -> FilasAnalisis] :
                datos_cargados = TablaAnalisis(fs, sin)
       \/ \E f \in FilasAnalisis :
            datos_cargados = TablaAnalisis(<<f, FilaConTexto>>, {})
    /\ intervenciones = <<>>
    /\ sol = [r \in Solicitudes |->
                 IF r = 1 THEN [Libre EXCEPT !.pc = "analisis"] ELSE Libre]
    /\ visto = [datos |-> Ninguno, repo |-> <<>>]

\* ver_analisis: the page shows the analysis of the loaded table, or the
\* error the analysis ended with.  previo keeps the page shown before.
VerAnalisis(r) ==
    /\ sol[r].pc \in {"analisis", "analisis_reordenado"}
    /\ datos_cargados.hay
    /\ \E a \in generar_analisis_completo(datos_cargados) :
         visto' = [datos |-> datos_cargados, repo |-> intervenciones,
                   analisis |-> a]
    /\ sol' = [sol EXCEPT ![r].pc = IF @ = "analisis" THEN "reordenar" ELSE "fin",
                           ![r].previo = visto]
    /\ UNCHANGED <<df_original, df_procesado, errores_validacion,
                   datos_cargados, intervenciones>>

Permutaciones(n) ==
    {p \in [1..n -> 1..n] : \A i, j \in 1..n : i # j => p[i] # p[j]}

\* The same rows loaded in another order.
Reordenar(r) ==
    /\ sol[r].pc = "reordenar"
    /\ \E p \in Permutaciones(Len(datos_cargados.filas)) :
         datos_cargados' =
             [datos_cargados EXCEPT
                 !.filas = [i \in 1..Len(datos_cargados.filas) |->
                               datos_cargados.filas[p[i]]]]
    /\ sol' = [sol EXCEPT ![r].pc = "analisis_reordenado"]
    /\ UNCHANGED <<df_original, df_procesado, errores_validacion,
                   intervenciones, visto>>

NextAnalisis == \E r \in Solicitudes : VerAnalisis(r) \/ Reordenar(r)

SpecAnalisis == InitAnalisis /\ [][NextAnalisis]_vars

(***************************************************************************)
(* RepositorioIntervenciones.obtener_estadisticas: the Records are written *)
(* back to a table, one row each, and that table is analysed.  The table   *)
(* here has the columns the analysis reads; kpis_agregados is left out.    *)
(***************************************************************************)
ColumnasEstadisticas == ColumnasAnalisis \cup Rango(columnas_trabajadores)

Indice(s, x) == CHOOSE i \in 1..Len(s) : s[i] = x

\* registro_completo: the attributes of the Record where it has them, and
\* the row's own cells (datos_originales) for the rest.
registro_completo(reg) ==
    [c \in ColumnasEstadisticas |->
        CASE c = "X" -> reg.coordenada_x
          [] c = "Y" -> reg.coordenada_y
          [] c = "estado_obr" -> Str(value(reg.estado_obra))
          [] c \in Rango(columnas_trabajadores)
                -> Num(reg.recursos_humanos.cant[Indice(columnas_trabajadores, c)])
          [] c = "num_total_" -> Num(reg.recursos_humanos.total_trabajadores)
          [] c = "total_hora" -> reg.total_horas_trabajadas
          [] c \in Rango(columnas_horas_maq)
                -> reg.horas[Indice(columnas_horas_maq, c)]
          [] OTHER -> IF c \in DOMAIN reg.datos_originales
                      THEN reg.datos_originales[c] ELSE None]

RECURSIVE datos_para_analisis(_)
datos_para_analisis(repo) ==
    IF repo = <<>> THEN <<>>
    ELSE <<registro_completo(Head(repo))>> \o datos_para_analisis(Tail(repo))

\* filtrar_por_estado
filtrar_por_estado(repo, estado) == SelectSeq(repo, LAMBDA i : i.estado_obra = estado)

\* dict.update: the entries of b added to a, or put in the place of a's.
update(a, b) ==
    [k \in DOMAIN a \cup DOMAIN b |-> IF k \in DOMAIN b THEN b[k] ELSE a[k]]

\* obtener_estadisticas: the statistics the call can return; an empty
\* dictionary for an empty repository.
obtener_estadisticas(repo) ==
    IF repo = <<>> THEN {[vacio |-> TRUE]}
    ELSE {IF ~a.ok THEN a
          ELSE update(a,
                   [total_intervenciones |-> Len(repo),
                    distribucion_estados |->
                        [estado \in Rango(EstadoObra) |->
                            Len(filtrar_por_estado(repo, estado))]]) :
            a \in generar_analisis_completo(
                     DataFrame(ColumnasEstadisticas, datos_para_analisis(repo)))}

(***************************************************************************)
(* The two aggregations side by side: a normalized table (its numeric      *)
(* cells are numbers) is loaded into the repository, and then the table    *)
(* and the repository are each aggregated.                                 *)
(***************************************************************************)
FilaEstadisticas(estado, ayuda, total, horas) ==
    [c \in ColumnasEstadisticas |->
        CASE c = "cant_ayuda" -> Num(ayuda)
          [] c = "cant_ofici" -> Num(3)
          [] c \in Rango(columnas_trabajadores) -> Num(0)
          [] OTHER -> FilaAnalisis(estado, Cadena("Volqueta"), total, Num(horas),
                                   Todas(1))[c]]

FilasEstadisticas ==
    {FilaEstadisticas(estado, 2, total, 1) :
        estado \in {Cadena("Finalizada"), Str(<<"En", " ", "ejecución">>),
                    Str(<<"En", " ", "ejecucion">>)},
        total \in {5, 0}}

InitEstadisticas ==
    /\ df_original = Ninguno
    /\ df_procesado = Ninguno
    /\ errores_validacion = <<>>
    /\ \E fs \in FilasHasta(FilasEstadisticas) :
         datos_cargados = DataFrame(ColumnasEstadisticas, fs)
    /\ intervenciones = <<>>
    /\ sol = [r \in Solicitudes |->
                 IF r = 1 THEN [Libre EXCEPT !.pc = "repositorio"] ELSE Libre]
    /\ visto = [datos |-> Ninguno, repo |-> <<>>]

\* The table and the repository built from it, aggregated.
Estadisticas(r) ==
    /\ sol[r].pc = "filas"
    /\ sol[r].i > Len(sol[r].df.filas)
    /\ \E a \in generar_analisis_completo(datos_cargados) :
         \E e \in obtener_estadisticas(intervenciones) :
            visto' = [datos |-> datos_cargados, repo |-> intervenciones,
                      analisis |-> a, estadisticas |-> e]
    /\ sol' = [sol EXCEPT ![r].pc = "fin"]
    /\ UNCHANGED <<df_original, df_procesado, errores_validacion,
                   datos_cargados, intervenciones>>

NextEstadisticas ==
    \E r \in Solicitudes : Vaciar(r) \/ AgregarFila(r) \/ Estadisticas(r)

SpecEstadisticas == InitEstadisticas /\ [][NextEstadisticas]_vars

(***************************************************************************)
(* EstadoObra.from_string alone: it is applied to the work status of a     *)
(* row, and then the row is loaded into the repository.                    *)
(***************************************************************************)
MaxBlancos == 2      \* blanks before and after a text

Blancos(n) == [i \in 1..n |-> " "]

\* What a status cell can say, between its blanks.
Frases ==
    {<<"Sin", " ", "iniciar">>, <<"SIN", " ", "INICIAR">>,
     <<"En", " ", "ejecución">>, <<"EN", " ", "EJECUCIÓN">>,
     <<"En", " ", "ejecucion">>, <<"en", " ", "EJECUCION">>,
     <<"Finalizada">>, <<"FINALIZADO">>, <<"finalizado">>,
     <<"Suspendida">>, <<"En", " ", " ", "ejecucion">>, <<"n", "a", "n">>, <<>>}

\* The values of a status cell: none, missing, a number, a text.
ValoresDeEstado ==
    {None, NaN, Num(5), Texto}
        \cup {Str(Blancos(antes) \o frase \o Blancos(despues)) :
                antes \in 0..MaxBlancos, despues \in 0..MaxBlancos,
                frase \in Frases}

InitEstado ==
    /\ df_original = Ninguno
    /\ df_procesado = Ninguno
    /\ errores_validacion = <<>>
    /\ \E valor \in ValoresDeEstado :
         datos_cargados =
             DataFrame(ColumnasCompletas, <<[FilaSana EXCEPT !["estado_obr"] = valor]>>)
    /\ intervenciones = <<>>
    /\ sol = [r \in Solicitudes |->
                 IF r = 1 THEN [Libre EXCEPT !.pc = "from_string"] ELSE Libre]
    /\ visto = [datos |-> Ninguno, repo |-> <<>>]

\* EstadoObra.from_string(valor) on the status of the first row.
FromString(r) ==
    /\ sol[r].pc = "from_string"
    /\ sol' = [sol EXCEPT ![r].pc = "repositorio",
                          ![r].resumen =
                              from_string(datos_cargados.filas[1]["estado_obr"])]
    /\ UNCHANGED <<df_original, df_procesado, errores_validacion,
                   datos_cargados, intervenciones, visto>>

NextEstado == \E r \in Solicitudes : FromString(r) \/ Vaciar(r) \/ AgregarFila(r)

SpecEstado == InitEstado /\ [][NextEstado]_vars

(***************************************************************************)
(* AnalizadorInteligente.analizar_tendencias_temporales                    *)
(* (modulos/generador_informes.py) on a table of submission dates.  A date *)
(* is a number of hours since 1970-01-01 00:00, a Thursday.                *)
(***************************************************************************)
\* pd.to_datetime(errors='coerce') on one cell: a date stays, anything else
\* becomes NaT.
to_datetime(c) == IF c.k = "num" THEN c ELSE NaN

\* Timedelta.days: the whole days of a span of hours.
days(horas) == horas \div 24

\* Series.dt.day_name() on one date.
day_name(c) ==
    Cadena(<<"Thursday", "Friday", "Saturday", "Sunday", "Monday", "Tuesday",
             "Wednesday">>[(days(c.v) % 7) + 1])

\* The first of two numbers taken for their maximum.
max_primero(a, b) == a

\* max(a, b) of two numbers.
max2(a, b) == IF a >= b THEN a ELSE b

\* Series.head(n)
head(s, n) == SubSeq(s, 1, IF Len(s) < n THEN Len(s) ELSE n)

\* analizar_tendencias_temporales on a new AnalizadorInteligente: the results
\* the call can return, each with the insights it has appended; an empty
\* dictionary when there is no date to use.
analizar_tendencias_temporales(df) ==
    IF "fecha_dilig" \notin df.columnas THEN {[vacio |-> TRUE, insights |-> <<>>]}
    ELSE LET fechas == [i \in 1..Len(df.filas) |-> to_datetime(df.filas[i]["fecha_dilig"])]
             fechas_validas == dropna(fechas)
             rango_dias == days(max(fechas_validas).v - min(fechas_validas).v)
             n == Len(fechas_validas)
             nombres == [i \in 1..n |-> day_name(fechas_validas[i])]
         IN  IF n = 0 THEN {[vacio |-> TRUE, insights |-> <<>>]}
             ELSE {[vacio |-> FALSE,
                    fecha_inicio |-> min(fechas_validas),
                    fecha_fin |-> max(fechas_validas),
                    rango_dias |-> rango_dias,
                    registros_por_dia |-> Cociente(n, max2(rango_dias, 1)),
                    dias_mas_activos |-> head(dias, 3),
                    insights |->
                        (IF rango_dias > 30 THEN <<"larga duracion">> ELSE <<>>)
                        \o (IF n > 3 * max2(rango_dias, 1) THEN <<"alta frecuencia">>
                            ELSE IF n < max2(rango_dias, 1) THEN <<"baja frecuencia">>
                            ELSE <<>>)] :
                      dias \in value_counts(nombres)}

\* Submission dates: missing, a text that is no date, and dates on the same
\* day, on the next day less than 24 hours later, and 40 days later.
Fechas == {NaN, Texto, Num(0), Num(10), Num(30), Num(960)}

InitTemporal ==
    /\ df_original = Ninguno
    /\ df_procesado = Ninguno
    /\ errores_validacion = <<>>
    /\ \/ datos_cargados = DataFrame({"X"}, <<[c \in {"X"} |-> Num(x_min)]>>)
       \/ \E fs \in UNION {[1..n -> Fechas] : n \in 0..MaxObras} :
            datos_cargados =
                DataFrame({"fecha_dilig"},
                          [i \in 1..Len(fs) |-> [c \in {"fecha_dilig"} |-> fs[i]]])
    /\ intervenciones = <<>>
    /\ sol = [r \in Solicitudes |->
                 IF r = 1 THEN [Libre EXCEPT !.pc = "tendencias"] ELSE Libre]
    /\ visto = [datos |-> Ninguno, repo |-> <<>>]

\* procesar_datos_para_informe: the temporal analysis of the loaded table.
Tendencias(r) ==
    /\ sol[r].pc = "tendencias"
    /\ \E t \in analizar_tendencias_temporales(datos_cargados) :
         visto' = [datos |-> datos_cargados, repo |-> intervenciones,
                   tendencias |-> t]
    /\ sol' = [sol EXCEPT ![r].pc = "fin"]
    /\ UNCHANGED <<df_original, df_procesado, errores_validacion,
                   datos_cargados, intervenciones>>

NextTemporal == \E r \in Solicitudes : Tendencias(r)

SpecTemporal == InitTemporal /\ [][NextTemporal]_vars

(***************************************************************************)
(* The geographic part of generar_analisis_completo (analisis_geografico)  *)
(* on a table of coordinates.                                              *)
(***************************************************************************)
\* DataFrame[['X', 'Y']].drop_duplicates().shape[0]: the pairs of cells that
\* differ, a missing value being equal to a missing value.
puntos_unicos(df) ==
    Cardinality({<<df.filas[i]["X"], df.filas[i]["Y"]>> : i \in 1..Len(df.filas)})

\* analisis_geografico; no such entry for a table without X or Y.
analisis_geografico(df) ==
    IF ~({"X", "Y"} \subseteq df.columnas) THEN [hay |-> FALSE]
    ELSE [hay |-> TRUE,
          rango_coordenadas |->
              [min_x |-> min(Serie(df, "X")), max_x |-> max(Serie(df, "X")),
               min_y |-> min(Serie(df, "Y")), max_y |-> max(Serie(df, "Y"))],
          centroide |-> [x |-> mean(Serie(df, "X")), y |-> mean(Serie(df, "Y"))],
          puntos_unicos |-> puntos_unicos(df)]

\* Coordinate pairs, in hundredths of a degree: some of them agree to the
\* tenth of a degree and differ in the hundredths.
Puntos ==
    {[c \in {"X", "Y"} |-> IF c = "X" THEN x ELSE y] :
        x \in {Num(-7558), Num(-7557), Num(-7552), NaN}, y \in {Num(624), Num(626)}}

InitGeografico ==
    /\ df_original = Ninguno
    /\ df_procesado = Ninguno
    /\ errores_validacion = <<>>
    /\ \/ datos_cargados = DataFrame({"X"}, <<[c \in {"X"} |-> Num(x_min)]>>)
       \/ \E fs \in UNION {[1..n -> Puntos] : n \in 0..MaxObras} :
            datos_cargados = DataFrame({"X", "Y"}, fs)
    /\ intervenciones = <<>>
    /\ sol = [r \in Solicitudes |->
                 IF r = 1 THEN [Libre EXCEPT !.pc = "geografico"] ELSE Libre]
    /\ visto = [datos |-> Ninguno, repo |-> <<>>]

\* generar_analisis_completo: the geographic analysis of the loaded table.
Geografico(r) ==
    /\ sol[r].pc = "geografico"
    /\ visto' = [datos |-> datos_cargados, repo |-> intervenciones,
                 geografico |-> analisis_geografico(datos_cargados)]
    /\ sol' = [sol EXCEPT ![r].pc = "fin"]
    /\ UNCHANGED <<df_original, df_procesado, errores_validacion,
                   datos_cargados, intervenciones>>

NextGeografico == \E r \in Solicitudes : Geografico(r)

SpecGeografico == InitGeografico /\ [][NextGeografico]_vars

(***************************************************************************)
(* Properties.                                                             *)
(***************************************************************************)
Ultimo(s) == s[Len(s)]

\* The call of request r has run stage `nombre`; it ran it with success.
Corrio(r, nombre) ==
    \E i \in 1..Len(sol[r].etapas) : sol[r].etapas[i].etapa = nombre

Logro(r, nombre) ==
    \E i \in 1..Len(sol[r].etapas) :
        sol[r].etapas[i].etapa = nombre /\ sol[r].etapas[i].ok

\* The required columns the table does not have.
Faltan(t) == Rango(REQUIRED_COLUMNS) \ t.columnas

\* A table with every required column, at least one row and coordinate
\* columns that hold only numbers or missing values.
TablaValida(t) ==
    /\ t.hay
    /\ Faltan(t) = {}
    /\ Len(t.filas) > 0
    /\ is_numeric_dtype(t, "X")
    /\ is_numeric_dtype(t, "Y")

FueraDeLaCaja(fila) ==
    \/ ~(fila["X"].k = "num" /\ fila["X"].v >= x_min /\ fila["X"].v <= x_max)
    \/ ~(fila["Y"].k = "num" /\ fila["Y"].v >= y_min /\ fila["Y"].v <= y_max)

\* C1: when validar_estructura has run on a table that lacks required columns,
\* it has returned False and the last error it recorded lists exactly the
\* required columns that are not columns of the table, each once, whatever
\* else is wrong with the table (no rows, coordinates that are no numbers).
C1_FaltantesExactas ==
    \A r \in Solicitudes :
        (Corrio(r, "validar") /\ Faltan(df_original) # {}) =>
            /\ ~Logro(r, "validar")
            /\ sol[r].pc = "manejar" /\ ~sol[r].exito
            /\ Len(errores_validacion) > 0
            /\ Ultimo(errores_validacion).tipo = "Columnas faltantes"
            /\ Rango(Ultimo(errores_validacion).columnas) = Faltan(df_original)
            /\ Len(Ultimo(errores_validacion).columnas)
                   = Cardinality(Faltan(df_original))
            /\ sol[r].resumen.errores = errores_validacion

C1_Testigo ==
    \E r \in Solicitudes :
        /\ Corrio(r, "validar")
        /\ Cardinality(Faltan(df_original)) = 2
        /\ "X" \in df_original.columnas
        /\ Len(df_original.filas) > 0
        /\ ~is_numeric_dtype(df_original, "X")
        /\ Len(errores_validacion) = 2

\* C2: on a processor that has recorded no error, validar_estructura on a
\* table with every required column, at least one row and numeric coordinate
\* columns returns True and records nothing: the error list stays empty.
C2_ValidaSinErrores ==
    [][\A r \in Solicitudes :
          (/\ sol[r].pc = "validar" /\ sol'[r].pc # "validar"
           /\ errores_validacion = <<>>
           /\ TablaValida(df_original))
          => (sol'[r].pc = "limpiar" /\ errores_validacion' = <<>>)]_vars

C2_Testigo ==
    \E r \in Solicitudes :
        /\ Logro(r, "validar")
        /\ errores_validacion = <<>>
        /\ TablaValida(df_original)
        /\ \E i \in 1..Len(df_original.filas) : FueraDeLaCaja(df_original.filas[i])

\* C3: when procesar_archivo_completo has returned failure for an upload, the
\* application's dataset and its Record collection are what they were when
\* the request arrived.
C3_FracasoSinEfecto ==
    \A r \in Solicitudes :
        (/\ sol[r].pc \in {"manejar", "respondido"}
         /\ sol[r].etapas # <<>>
         /\ ~sol[r].exito)
        => /\ datos_cargados = sol[r].previo.datos
           /\ intervenciones = sol[r].previo.repo

C3_Testigo ==
    \E r \in Solicitudes :
        /\ sol[r].pc = "respondido"
        /\ ~sol[r].exito
        /\ Corrio(r, "limpiar")
        /\ sol[r].previo.datos.hay
        /\ sol[r].previo.repo # <<>>
        /\ df_procesado # datos_cargados

OrdenEtapas == <<"cargar", "validar", "limpiar", "calcular", "resumir">>

\* C4: the stages a call of procesar_archivo_completo has run are a prefix of
\* load, validate, clean, totals, summary; only the last one run can have
\* failed, and then the call returns (False, error); the call returns success
\* only after all five; limpiar_datos has run only on a table that passes
\* validation.
C4_EtapasEnOrden ==
    \A r \in Solicitudes :
        LET e == sol[r].etapas
        IN  /\ Len(e) <= Len(OrdenEtapas)
            /\ \A i \in 1..Len(e) :
                   /\ e[i].etapa = OrdenEtapas[i]
                   /\ i < Len(e) => e[i].ok
            /\ (Len(e) > 0 /\ ~Ultimo(e).ok) =>
                   /\ sol[r].pc \in {"manejar", "respondido"}
                   /\ ~sol[r].exito
                   /\ "error" \in DOMAIN sol[r].resumen
            /\ sol[r].exito => (Len(e) = Len(OrdenEtapas) /\ Ultimo(e).ok)
            /\ Corrio(r, "limpiar") => TablaValida(df_original)

C4_Testigo ==
    \E r \in Solicitudes :
        /\ sol[r].pc = "respondido"
        /\ Corrio(r, "validar") /\ ~Logro(r, "validar")
        /\ Len(df_original.filas) > 0
        /\ df_procesado.hay

\* C5 as claimed: validar_estructura on a table with zero rows fails with the
\* error "El archivo esta vacio", and the table is not cleaned.
C5_VacioDiceVacio ==
    \A r \in Solicitudes :
        (Corrio(r, "validar") /\ df_original.hay /\ df_original.filas = <<>>) =>
            /\ ~Logro(r, "validar")
            /\ Ultimo(errores_validacion).tipo = "El archivo esta vacio"
            /\ ~Corrio(r, "limpiar")

\* C5, amended: validar_estructura on a table with zero rows fails, with
\* "El archivo esta vacio" when the table has every required column and with
\* "Columnas faltantes" when it lacks one; the call stops there (no cleaning),
\* and the application's dataset and Record collection stay as they were.
C5_VacioRechazado ==
    \A r \in Solicitudes :
        (Corrio(r, "validar") /\ df_original.hay /\ df_original.filas = <<>>) =>
            /\ ~Logro(r, "validar")
            /\ ~sol[r].exito
            /\ Ultimo(errores_validacion).tipo =
                   (IF Faltan(df_original) = {} THEN "El archivo esta vacio"
                    ELSE "Columnas faltantes")
            /\ Len(sol[r].etapas) = 2
            /\ datos_cargados = sol[r].previo.datos
            /\ intervenciones = sol[r].previo.repo

C5_Testigo ==
    \E r \in Solicitudes :
        /\ sol[r].pc = "respondido"
        /\ Corrio(r, "validar")
        /\ df_original.hay /\ df_original.filas = <<>>
        /\ Faltan(df_original) = {}
        /\ sol[r].previo.repo # <<>>

\* The Records of a dataset (none when there is no dataset).
RegistrosDe(df) == registros_de(df.filas, df.columnas)

C7_ReemplazoTotal ==
    (\A r \in Solicitudes : sol[r].pc \notin {"repositorio", "filas"})
        => intervenciones = RegistrosDe(datos_cargados)

C7_Testigo ==
    \E r \in Solicitudes :
        /\ sol[r].pc = "respondido"
        /\ sol[r].exito
        /\ sol[r].previo.repo # <<>>
        /\ sol[r].previo.datos # datos_cargados
        /\ Len(intervenciones) < Len(sol[r].previo.repo)

\* The rows of a processed table whose reported total differs from the sum of
\* the worker counts the table has.
FilasConDiferencia(df) ==
    {i \in 1..Len(df.filas) :
        Valor(df.filas[i]["num_total_"])
            # SumaFila(df.filas[i], columnas_existentes(df, columnas_trabajadores))}

AvisosDeDiferencias(r) ==
    SelectSeq(sol[r].avisos,
              LAMBDA a : a.msg = "diferencias en total de trabajadores")

\* C8: after calcular_totales on a table with num_total_ and worker counts,
\* the count of inconsistent rows is exactly the number of rows whose
\* reported total differs from the sum of their worker counts: it is logged
\* once with that number when it is not zero, and not at all when it is zero.
C8_DiferenciasContadas ==
    \A r \in Solicitudes :
        (/\ Logro(r, "calcular")
         /\ "num_total_" \in df_procesado.columnas
         /\ columnas_existentes(df_procesado, columnas_trabajadores) # <<>>)
        => IF FilasConDiferencia(df_procesado) = {}
           THEN AvisosDeDiferencias(r) = <<>>
           ELSE /\ Len(AvisosDeDiferencias(r)) = 1
                /\ AvisosDeDiferencias(r)[1].n
                       = Cardinality(FilasConDiferencia(df_procesado))

\* The scenario of the specification: 2+3+0+0+0 reported as 5, then as 6.
C8_Testigo ==
    \E r \in Solicitudes :
        /\ Logro(r, "calcular")
        /\ Len(df_procesado.filas) = 2
        /\ \A i \in 1..2 :
               /\ df_procesado.filas[i]["cant_ayuda"] = Num(2)
               /\ df_procesado.filas[i]["cant_ofici"] = Num(3)
               /\ df_procesado.filas[i]["cant_otros"] = Num(0)
        /\ df_procesado.filas[1]["num_total_"] = Num(5)
        /\ df_procesado.filas[2]["num_total_"] = Num(6)
        /\ AvisosDeDiferencias(r)[1].n = 1

\* C9: for an upload whose table has every required column, rows and numeric
\* coordinate columns, whatever its total mismatches and out-of-box
\* coordinates: validation and totals succeed, the call returns success, the
\* processed table has every input row, and every row becomes a Record unless
\* a cell that is no anomaly (a text in a quantity column) stops it.
C9_AnomaliasNoFatales ==
    \A r \in Solicitudes :
        LET t == sol[r].archivo.tabla
        IN  (TablaValida(t) /\ t.defecto = "ninguno") =>
                /\ Corrio(r, "validar") => Logro(r, "validar")
                /\ Corrio(r, "calcular") =>
                       /\ Logro(r, "calcular")
                       /\ Len(df_procesado.filas) = Len(t.filas)
                /\ sol[r].pc \in {"manejar", "repositorio", "filas", "respondido"}
                       => sol[r].exito
                /\ sol[r].pc = "respondido" =>
                       Len(intervenciones) =
                           Cardinality({i \in 1..Len(t.filas) :
                                           t.filas[i]["localizaci"].k # "txt"})

C9_Testigo ==
    \E r \in Solicitudes :
        /\ sol[r].pc = "respondido"
        /\ \E i \in 1..Len(datos_cargados.filas) :
               FueraDeLaCaja(datos_cargados.filas[i])
        /\ FilasConDiferencia(datos_cargados) # {}
        /\ Len(intervenciones) = 2

\* The numbers a summary carries.
Numeros(res) ==
    {res.archivo_original.filas, res.archivo_original.columnas,
     res.archivo_procesado.filas, res.archivo_procesado.columnas,
     Len(res.validacion.errores),
     res.estadisticas.total_intervenciones,
     res.estadisticas.total_trabajadores, res.estadisticas.total_horas}

FilasFuera(df) == {i \in 1..Len(df.filas) : FueraDeLaCaja(df.filas[i])}

LlegaACoordenadas(t) == t.hay /\ Faltan(t) = {} /\ Len(t.filas) > 0

\* C11 as claimed: when the X or Y column is not of numeric type but every
\* cell of it reads as a number, validation coerces the column and passes.
C11_CoercionDeCoordenadas ==
    \A r \in Solicitudes :
        (/\ Corrio(r, "validar")
         /\ LlegaACoordenadas(df_original)
         /\ es_coercible(df_original, "X")
         /\ es_coercible(df_original, "Y"))
        => Logro(r, "validar")

\* C11, amended: no coercion is attempted.  On a table with every required
\* column and at least one row, validation passes exactly when the X and Y
\* columns are both of numeric type; otherwise it fails and the error it
\* records names the field, X when X is not numeric and else Y, also when
\* every cell of the column is a text that reads as a number.
C11_SinCoercion ==
    \A r \in Solicitudes :
        (Corrio(r, "validar") /\ LlegaACoordenadas(df_original)) =>
            IF is_numeric_dtype(df_original, "X") /\ is_numeric_dtype(df_original, "Y")
            THEN Logro(r, "validar")
            ELSE /\ ~Logro(r, "validar")
                 /\ ~sol[r].exito
                 /\ Ultimo(errores_validacion).tipo =
                        (IF ~is_numeric_dtype(df_original, "X")
                         THEN "Columna X no es numerica"
                         ELSE "Columna Y no es numerica")

C11_Testigo ==
    \E r \in Solicitudes :
        /\ Corrio(r, "validar") /\ ~Logro(r, "validar")
        /\ LlegaACoordenadas(df_original)
        /\ \A i \in 1..Len(df_original.filas) :
               df_original.filas[i]["X"].k = "numtxt"
        /\ Ultimo(errores_validacion).tipo = "Columna X no es numerica"

\* The designated numeric (text) columns the table has.
NumericasDe(df) == Rango(columnas_numericas) \cap df.columnas
TextoDe(df) == Rango(columnas_texto) \cap df.columnas

\* C12: after limpiar_datos on a table, the call has succeeded, the row count
\* is unchanged, and in every designated numeric column the table has each
\* cell is a number: the value of the raw cell when it is a number or a text
\* that reads as one, and 0 when it is missing or does not parse.
C12_NumerosOCero ==
    \A r \in Solicitudes :
        LET t == sol[r].archivo.tabla
        IN  (sol[r].pc = "calcular" /\ t.hay) =>
                /\ Logro(r, "limpiar")
                /\ Len(df_procesado.filas) = Len(t.filas)
                /\ \A i \in 1..Len(t.filas) : \A c \in NumericasDe(t) :
                       LET o == t.filas[i][c]
                           p == df_procesado.filas[i][c]
                       IN  /\ p.k = "num"
                           /\ o.k \in {"num", "numtxt"} => p.v = o.v
                           /\ o.k \in {"nan", "txt"} => p.v = 0

C12_Testigo ==
    \E r \in Solicitudes :
        /\ sol[r].pc = "calcular"
        /\ Len(df_procesado.filas) = 2
        /\ sol[r].archivo.tabla.filas[1]["cant_ayuda"] = Texto
        /\ sol[r].archivo.tabla.filas[2]["cant_ayuda"] = NumTexto(7)
        /\ df_procesado.filas[1]["cant_ayuda"] = Num(0)
        /\ df_procesado.filas[2]["cant_ayuda"] = Num(7)

\* C13: after limpiar_datos, every cell of a designated text column the table
\* has is a string with no whitespace at either end, and a cell that was
\* missing in the input is the empty string.
C13_TextoLimpio ==
    \A r \in Solicitudes :
        LET t == sol[r].archivo.tabla
        IN  (sol[r].pc = "calcular" /\ t.hay) =>
                \A i \in 1..Len(t.filas) : \A c \in TextoDe(t) :
                    LET p == df_procesado.filas[i][c]
                    IN  /\ p.k = "str"
                        /\ p.s # <<>> => (Head(p.s) # " " /\ p.s[Len(p.s)] # " ")
                        /\ t.filas[i][c].k = "nan" => p.s = <<>>

\* C14: limpiar_datos on the output of limpiar_datos changes no cell of a
\* designated numeric or text column, and no row count.
C14_LimpiezaIdempotente ==
    \A r \in Solicitudes :
        sol[r].pc = "relimpiado" =>
            /\ Len(df_procesado.filas) = Len(df_original.filas)
            /\ \A i \in 1..Len(df_original.filas) :
                   \A c \in NumericasDe(df_original) \cup TextoDe(df_original) :
                       df_procesado.filas[i][c] = df_original.filas[i][c]

C14_Testigo ==
    \E r \in Solicitudes :
        /\ sol[r].pc = "relimpiado"
        /\ Len(df_procesado.filas) = 2
        /\ sol[r].archivo.tabla.filas[1]["cant_ayuda"] = Texto
        /\ sol[r].archivo.tabla.filas[1]["maquinaria"]
               = Str(<<" ", "a", " ", "b", " ", " ">>)
        /\ sol[r].archivo.tabla.filas[2]["id_punto"] = NaN
        /\ df_procesado.filas[1]["maquinaria"] = Str(<<"a", " ", "b">>)
        /\ df_procesado.filas[2]["id_punto"] = Str(<<"n", "a", "n">>)

\* The rows of df among its first n whose construction raises.
FilasQueFallan(df, n) ==
    {j \in 1..n : ~desde_dataframe_fila(df.filas[j], df.columnas).ok}

\* C15: at every turn of desde_dataframe's loop, and at its end, the
\* collection holds one Record for every row done whose construction
\* succeeded, in row order, and nothing for a row that raised: its length is
\* the number of rows done minus the number of them that raised, and the rows
\* after one that raised are done all the same.
C15_FilaMalaNoAborta ==
    \A r \in Solicitudes :
        sol[r].pc = "filas" =>
            LET df == sol[r].df
                n == sol[r].i - 1
                buenas == SelectSeq(SubSeq(df.filas, 1, n),
                              LAMBDA f : desde_dataframe_fila(f, df.columnas).ok)
            IN  /\ n <= Len(df.filas)
                /\ n < Len(df.filas) => ENABLED AgregarFila(r)
                /\ Len(intervenciones) = n - Cardinality(FilasQueFallan(df, n))
                /\ \A k \in 1..Len(intervenciones) :
                       intervenciones[k].datos_originales = buenas[k]

C15_Testigo ==
    \E r \in Solicitudes :
        /\ sol[r].pc = "filas"
        /\ sol[r].i = 3
        /\ FilasQueFallan(sol[r].df, 2) = {1}
        /\ Len(intervenciones) = 1
        /\ intervenciones[1].datos_originales = sol[r].df.filas[2]

\* The optional numeric fields of a row, and those of them that the row
\* lacks: the table has no such column, or the cell is missing.
CamposOpcionales == (Rango(columnas_int) \cup Rango(columnas_float)) \ {"X", "Y"}

Falta(fila, cols, c) == c \notin cols \/ fila[c].k = "nan"

\* C16: a row whose optional fields are numbers, absent or missing becomes a
\* Record (its construction does not raise), and the attribute of a field
\* that is absent or missing has the default 0.
C16_OpcionalesPorDefecto ==
    \A r \in Solicitudes :
        sol[r].pc = "filas" =>
            \A j \in 1..(sol[r].i - 1) :
                LET fila == sol[r].df.filas[j]
                    cols == sol[r].df.columnas
                    c == desde_dataframe_fila(fila, cols)
                IN  (\A o \in CamposOpcionales :
                        Falta(fila, cols, o) \/ fila[o].k = "num")
                    => /\ c.ok
                       /\ Falta(fila, cols, "localizaci")
                              => c.reg.localizacion_replanteo = Num(0)
                       /\ Falta(fila, cols, "cant_ayuda")
                              => c.reg.recursos_humanos.cant[1] = 0

\* The analysis without the order of its two rollups.
SinOrden(a) ==
    IF ~a.ok THEN a
    ELSE [a EXCEPT !.metricas_generales.estados_obra = Rango(@),
                   !.maquinaria.tipos_maquinaria_usada = Rango(@)]

\* The maxima, minima, counts and frequency counts of an analysis.
Conteos(a) ==
    IF ~a.ok THEN a
    ELSE LET grupos == a.actividades_construccion.resumen_por_grupo
         IN  [total_registros |-> a.metricas_generales.total_registros,
              estados_obra |-> Rango(a.metricas_generales.estados_obra),
              tipos_maquinaria_usada |-> Rango(a.maquinaria.tipos_maquinaria_usada),
              cobertura_geografica |-> a.metricas_generales.cobertura_geografica,
              actividades |->
                  [g \in DOMAIN grupos |->
                      [col \in DOMAIN grupos[g].totales_por_actividad |->
                          [maximo |-> grupos[g].totales_por_actividad[col].maximo,
                           obras_con_actividad |->
                               grupos[g].totales_por_actividad[col].obras_con_actividad]]]]

\* Every column the analysis adds holds numbers whose partial sums, in any
\* order, fit the significand.
SumasExactas(df) ==
    \A col \in Rango(columnas_sumadas(df)) :
        SumaSec([i \in 1..Len(df.filas) |-> Abs(Valor(df.filas[i][col]))]) < 2^Mantisa

PrimeraVez(s, c) ==
    CHOOSE i \in 1..Len(s) : s[i] = c /\ \A j \in 1..(i - 1) : s[j] # c

\* t lists every value of the column s once, with the number of rows that
\* hold it, by descending count.
EsRollup(t, s) ==
    /\ {t[i].valor : i \in 1..Len(t)} = Rango(dropna(s))
    /\ \A i, j \in 1..Len(t) : i # j => t[i].valor # t[j].valor
    /\ \A i \in 1..Len(t) : t[i].n = cuenta(s, t[i].valor)
    /\ \A i, j \in 1..Len(t) : i < j => t[i].n >= t[j].n

\* Values of equal count are listed in the order of their first rows.
EmpatesEnOrden(t, s) ==
    \A i, j \in 1..Len(t) :
        i < j /\ t[i].n = t[j].n =>
            PrimeraVez(s, t[i].valor) < PrimeraVez(s, t[j].valor)

\* The rollups of the page shown, each with the column it was taken from.
Rollups ==
    IF "analisis" \in DOMAIN visto /\ visto.analisis.ok
    THEN {p \in {[campo |-> "estado_obr",
                  t |-> visto.analisis.metricas_generales.estados_obra,
                  s |-> Serie(visto.datos, "estado_obr")],
                 [campo |-> "maquinaria",
                  t |-> visto.analisis.maquinaria.tipos_maquinaria_usada,
                  s |-> Serie(visto.datos, "maquinaria")]} :
             p.campo \in visto.datos.columnas}
    ELSE {}

ObrasCon(df, cols) ==
    Cardinality({i \in 1..Len(df.filas) :
        \E col \in Rango(cols) :
            df.filas[i][col].k = "num" /\ df.filas[i][col].v # 0})

\* C19 as stated: for every group of the taxonomy the analysis reports, its
\* obras_con_actividad is the number of rows that have a nonzero value in at
\* least one of the group's fields.
C19_ObrasPorGrupo ==
    ("analisis" \in DOMAIN visto /\ visto.analisis.ok) =>
        LET resumen == visto.analisis.actividades_construccion.resumen_por_grupo
        IN  \A g \in DOMAIN resumen :
                resumen[g].obras_con_actividad
                    = ObrasCon(visto.datos, resumen[g].columnas_analizadas)

\* The coverage of the page shown.
Cobertura == visto.analisis.actividades_construccion.cobertura_actividades

\* The coverage ratio, columnas_con_datos / columnas_totales, lies in [0, 1];
\* porcentaje_cobertura is the ratio as a percentage.
RazonEntreCeroYUno ==
    /\ 0 <= Cobertura.columnas_con_datos
    /\ Cobertura.columnas_con_datos <= Cobertura.columnas_totales
    /\ Cobertura.columnas_totales = Len(actividades)
    /\ Cobertura.porcentaje_cobertura
           = Cociente(100 * Cobertura.columnas_con_datos, Cobertura.columnas_totales)

\* Every field of the taxonomy is a column of df and satisfies P in some row.
TodasConAlguna(df, P(_)) ==
    \A col \in Rango(actividades) :
        /\ col \in df.columnas
        /\ \E i \in 1..Len(df.filas) : df.filas[i][col].k = "num" /\ P(df.filas[i][col].v)

SinNegativos(df) ==
    \A col \in Rango(columnas_existentes(df, actividades)) :
        \A i \in 1..Len(df.filas) : Valor(df.filas[i][col]) >= 0

ColumnasDe(g) == (CHOOSE h \in Rango(grupos_actividades) : h.grupo = g).columnas

\* The cells of the columns cols of df, added row after row.
SumaDeCeldas(df, cols) ==
    SumaSec([i \in 1..Len(df.filas) |-> SumaFila(df.filas[i], cols)])

\* C21: a field of the taxonomy that is no column of the table adds nothing:
\* a group's total_grupo is the sum over the rows of its present fields, an
\* absent field is neither in columnas_analizadas nor in
\* totales_por_actividad, and a group with no present field is not in
\* resumen_por_grupo.
C21_CamposAusentesExcluidos ==
    ("analisis" \in DOMAIN visto /\ visto.analisis.ok) =>
        LET resumen == visto.analisis.actividades_construccion.resumen_por_grupo
            presentes(g) == {c \in Rango(ColumnasDe(g)) : c \in visto.datos.columnas}
        IN  /\ DOMAIN resumen
                   = {h.grupo : h \in {h \in Rango(grupos_actividades) :
                                          presentes(h.grupo) # {}}}
            /\ \A g \in DOMAIN resumen :
                   /\ Rango(resumen[g].columnas_analizadas) = presentes(g)
                   /\ DOMAIN resumen[g].totales_por_actividad = presentes(g)
                   /\ resumen[g].total_grupo
                          = SumaDeCeldas(visto.datos, resumen[g].columnas_analizadas)

\* A table without descapote and without the only field of concreto has been
\* analysed: preparacion_terreno is reported with a total that is not 0,
\* concreto is not reported.
C21_Testigo ==
    /\ "analisis" \in DOMAIN visto
    /\ visto.analisis.ok
    /\ {"descapote", "e_concreto"} \cap visto.datos.columnas = {}
    /\ "concreto" \notin DOMAIN visto.analisis.actividades_construccion.resumen_por_grupo
    /\ visto.analisis.actividades_construccion.resumen_por_grupo["preparacion_terreno"].total_grupo # 0

\* C22: the validation of a Record reports an inconsistency exactly when the
\* total the row reports differs from the sum of its five worker counts, and
\* the Record holds the total the row reports, a reported 0 included.
C22_InconsistenciaExacta ==
    \A i \in 1..Len(intervenciones) :
        LET reg == intervenciones[i]
            reportado == reg.datos_originales["num_total_"].v
            inconsistente ==
                "Inconsistencia en total de trabajadores" \in Rango(validar_datos(reg))
        IN  /\ inconsistente <=> reportado # SumaSec(reg.recursos_humanos.cant)
            /\ reg.recursos_humanos.total_trabajadores = reportado

\* The totals and the frequency counts the two aggregations share: workers,
\* hours worked, machinery hours, and the rows of every work status.
TotalesComunes(a) ==
    [total_trabajadores |-> a.recursos_humanos.total_trabajadores,
     total_horas_trabajadas |-> a.recursos_humanos.total_horas_trabajadas,
     distribucion_horas_maquinaria |-> a.maquinaria.distribucion_horas_maquinaria,
     total_horas_maquinaria |-> a.maquinaria.total_horas_maquinaria,
     estados_obra |-> Rango(a.metricas_generales.estados_obra)]

\* C23: when every row of the normalized table became a Record, aggregating
\* the Records and aggregating the table give the same human-resources
\* totals, machinery-hour totals and work-status frequency counts.
C23_AgregacionesIguales ==
    ("estadisticas" \in DOMAIN visto /\ Len(visto.repo) = Len(visto.datos.filas)
        /\ visto.repo # <<>>)
        => TotalesComunes(visto.estadisticas) = TotalesComunes(visto.analisis)

\* The geographic anomalies the validation of a Record lists.
AnomaliasGeograficas(reg) ==
    SelectSeq(validar_datos(reg),
              LAMBDA e : e \in {"Coordenada X fuera del rango de Medellin",
                                "Coordenada Y fuera del rango de Medellin"})

\* C24: a Record registers one geographic anomaly when its coordinate pair is
\* outside the bounding box of the ingestion stage and none when it is
\* inside: the two stages decide with the same box.
C24_UnaAnomaliaFueraDeLaCaja ==
    \A i \in 1..Len(intervenciones) :
        LET reg == intervenciones[i]
            dentro == /\ between(reg.coordenada_x, x_min, x_max)
                      /\ between(reg.coordenada_y, y_min, y_max)
        IN  Len(AnomaliasGeograficas(reg)) = IF dentro THEN 0 ELSE 1

\* The text of a status cell, trimmed and lower-cased; no text for a cell
\* that holds none.
TextoNormalizado(valor) ==
    IF valor.k = "str" THEN lower(strip(valor.s)) ELSE <<"?">>

\* C25: from_string returns, for every value, the member its trimmed and
\* lower-cased text names (both spellings of 'en ejecucion' give
\* EN_EJECUCION, 'finalizada' and 'finalizado' give FINALIZADA) and
\* SIN_INICIAR for everything else; EN_EJECUCION_ALT is never returned, and
\* every Record holds one of the three canonical states.
C25_FromStringTotal ==
    /\ \A r \in Solicitudes :
         sol[r].pc \in {"repositorio", "filas"} =>
            LET texto == TextoNormalizado(datos_cargados.filas[1]["estado_obr"])
            IN  /\ sol[r].resumen \in {"SIN_INICIAR", "EN_EJECUCION", "FINALIZADA"}
                /\ sol[r].resumen = "EN_EJECUCION"
                      <=> texto \in {<<"en", " ", "ejecución">>, <<"en", " ", "ejecucion">>}
                /\ sol[r].resumen = "FINALIZADA"
                      <=> texto \in {<<"finalizada">>, <<"finalizado">>}
    /\ \A i \in 1..Len(intervenciones) :
         intervenciones[i].estado_obra \in {"SIN_INICIAR", "EN_EJECUCION", "FINALIZADA"}

C25_Testigo ==
    /\ \E r \in Solicitudes : sol[r].pc = "filas" /\ sol[r].resumen = "EN_EJECUCION"
    /\ datos_cargados.filas[1]["estado_obr"] = Str(<<" ", "EN", " ", "EJECUCIÓN", " ", " ">>)
    /\ Len(intervenciones) = 1
    /\ intervenciones[1].estado_obra = "EN_EJECUCION"

\* The usable dates of a table, and the whole days between the earliest and
\* the latest of them.
FechasUsables(df) ==
    {df.filas[i]["fecha_dilig"].v :
        i \in {i \in 1..Len(df.filas) : df.filas[i]["fecha_dilig"].k = "num"}}

RegistrosUsables(df) ==
    Cardinality({i \in 1..Len(df.filas) : df.filas[i]["fecha_dilig"].k = "num"})

Lapso(df) ==
    LET primera == CHOOSE f \in FechasUsables(df) : \A g \in FechasUsables(df) : f <= g
        ultima == CHOOSE f \in FechasUsables(df) : \A g \in FechasUsables(df) : g <= f
    IN  (ultima - primera) \div 24

HayFechaUsable ==
    /\ "tendencias" \in DOMAIN visto
    /\ "fecha_dilig" \in visto.datos.columnas
    /\ FechasUsables(visto.datos) # {}

\* C26 as stated: with a usable date, the records-per-day average is the
\* total number of records divided by the span in days, the span taken as 1
\* when it is less.
C26_PromedioSobreTodos ==
    HayFechaUsable =>
        /\ ~visto.tendencias.vacio
        /\ visto.tendencias.registros_por_dia.n >= 1
        /\ visto.tendencias.registros_por_dia =
               Cociente(Len(visto.datos.filas),
                        IF Lapso(visto.datos) > 1 THEN Lapso(visto.datos) ELSE 1)

\* C26: with a usable date, the records-per-day average is the number of
\* records that have a usable date divided by the span in days, the span
\* taken as 1 when it is less; the divisor is never 0.
C26_PromedioSobreUsables ==
    HayFechaUsable =>
        /\ ~visto.tendencias.vacio
        /\ visto.tendencias.registros_por_dia.n >= 1
        /\ visto.tendencias.registros_por_dia =
               Cociente(RegistrosUsables(visto.datos),
                        IF Lapso(visto.datos) > 1 THEN Lapso(visto.datos) ELSE 1)

C26_Testigo ==
    /\ HayFechaUsable
    /\ Len(visto.datos.filas) = 3
    /\ FechasUsables(visto.datos) = {10, 30}
    /\ visto.tendencias.rango_dias = 0
    /\ visto.tendencias.registros_por_dia = Cociente(2, 1)

\* A coordinate in hundredths of a degree rounded to the tenth of a degree
\* (half to even); a missing coordinate stays missing.
Redondeada(c) ==
    IF c.k # "num" THEN c
    ELSE LET abajo == (c.v \div 10) * 10
             resto == c.v - abajo
         IN  Num(IF resto < 5 THEN abajo
                 ELSE IF resto > 5 THEN abajo + 10
                 ELSE IF (abajo \div 10) % 2 = 0 THEN abajo ELSE abajo + 10)

\* C27: the unique-point count is the number of distinct coordinate pairs
\* after rounding (rows that agree after rounding are one point), and it
\* never exceeds the number of rows.
C27_PuntosUnicosRedondeados ==
    ("geografico" \in DOMAIN visto /\ visto.geografico.hay) =>
        /\ visto.geografico.puntos_unicos =
               Cardinality({<<Redondeada(visto.datos.filas[i]["X"]),
                              Redondeada(visto.datos.filas[i]["Y"])>> :
                                i \in 1..Len(visto.datos.filas)})
        /\ visto.geografico.puntos_unicos <= Len(visto.datos.filas)

\* C28: whenever procesar_archivo_completo returns success, the summary it
\* returns says the upload is valid and lists no validation error, whatever
\* the uploads the processor has seen before.
C28_ExitoSinErrores ==
    \A r \in Solicitudes :
        (sol[r].pc = "manejar" /\ sol[r].exito) =>
            /\ sol[r].resumen.validacion.es_valido
            /\ sol[r].resumen.validacion.errores = <<>>

\* What procesar_archivo_completo makes of a table on a processor of its own.
Procesada(tabla) == calcular_totales(limpiar_datos(tabla)).df

\* C29: with uploads processed concurrently, the dataset a successful upload
\* installs is the cleaned form of the file of that upload, and that file has
\* passed the structural validation.
C29_InstalaLoPropio ==
    [][\A r \in Solicitudes :
          Instalar(r) =>
              /\ validar_estructura(sol[r].archivo.tabla, <<>>).ok
              /\ datos_cargados' = Procesada(sol[r].archivo.tabla)]_vars

\* C30: when the upload endpoint has answered 400 or 500, the application's
\* dataset and its Record collection are what they were when the request
\* arrived, wherever the handler failed.
C30_ErrorSinEfecto ==
    \A r \in Solicitudes :
        (sol[r].pc = "respondido" /\ sol[r].codigo \in {400, 500})
            => /\ datos_cargados = sol[r].previo.datos
               /\ intervenciones = sol[r].previo.repo

====
